---- MODULE Spec2Model ----
(***************************************************************************)
(* Model of ic_mple_structures::ringbuffer::StableRingBuffer: a fixed      *)
(* capacity FIFO kept in a stable vector (`data`) plus an index record     *)
(* {start, len, capacity} kept in a stable cell (`indices`).               *)
(*                                                                         *)
(* Option<T> is modelled as a sequence: None is <<>>, Some(v) is <<v>>.    *)
(* Vector indices are 0-based as in the source; the TLA+ sequence that     *)
(* holds the vector is 1-based, so slot i of the vector is d[i + 1].       *)
(***************************************************************************)
EXTENDS Integers, Sequences, FiniteSets, TLC

\* Largest capacity a buffer is created with or resized to.
MaxCap == 3

\* Number of (distinct) values pushed in one behaviour.
MaxPush == 5

\* Largest offset handed to truncate / nth_element / nth_element_from_end.
MaxN == MaxCap + 1

\* Keys of the cached map are 1..MaxKey.
MaxKey == 3

\* Largest max_cache_items a CachedBTreeMap is built with.
MaxCacheItems == 2

\* Number of (distinct) values inserted into the cached map in one behaviour.
MaxInsert == 2

\* Keys of the versioned map are 1..MaxVKey.
MaxVKey == 2

\* The longest VecExt the construction model pushes.
MaxVecLen == 2

\* The largest key of the three ordered maps that are compared.
MaxOKey == 3

\* The longest byte sequence handed to from_bytes.
MaxBytes == 26

\* The longest permission list handed to the AuthService.
MaxPermList == 2

\* The number of responses registered with the MockCanisterClient.
MaxResp == 2

\* The width of the u64 of the lookup model, in bits: offsets run up to
\* 2^U64Bits - 1, the largest value of the type.
U64Bits == 4

\* The clock of the time model advances at most this many quarter seconds.
MaxTicks == 7

None == <<>>

Some(v) == <<v>>

min(a, b) == IF a < b THEN a ELSE b

checked_sub(a, b) == IF a >= b THEN Some(a - b) ELSE None

saturating_sub(a, b) == IF a >= b THEN a - b ELSE 0

----------------------------------------------------------------------------
(* VecStructure for VecExt: the backing stable vector.                     *)

vec_len(d) == Len(d)

vec_get(d, index) == IF index < Len(d) THEN Some(d[index + 1]) ELSE None

\* Precondition index < len (the vector aborts otherwise; callers check).
vec_set(d, index, item) == [d EXCEPT ![index + 1] = item]

vec_push(d, item) == Append(d, item)

vec_clear(d) == <<>>

----------------------------------------------------------------------------
(* StableRingBufferIndices                                                 *)

IndicesNew(capacity) == [start |-> 0, len |-> 0, capacity |-> capacity]

offset_to_index_noStart(ind, offset) == offset % ind.capacity

offset_to_index(ind, offset) == (ind.start + offset) % ind.capacity

indices_nth_element(ind, n) ==
    IF n < ind.len THEN Some((ind.start + n) % ind.capacity) ELSE None

indices_nth_element_from_end_offByOne(ind, index) ==
    LET index_from_start == checked_sub(ind.len, index)
    IN  IF index_from_start = None THEN None
        ELSE indices_nth_element(ind, index_from_start[1])

indices_nth_element_from_end(ind, index) ==
    LET index_from_start == checked_sub(ind.len, index + 1)
    IN  IF index_from_start = None THEN None
        ELSE indices_nth_element(ind, index_from_start[1])

increase_len(ind, by) == [ind EXCEPT !.len = min(ind.len + by, ind.capacity)]

decrease_len_wrapping(ind, arg) ==
    [ind EXCEPT !.len = IF ind.len >= arg THEN ind.len - arg ELSE ind.len]

decrease_len(ind, arg) == [ind EXCEPT !.len = saturating_sub(ind.len, arg)]

increase_start_noWrap(ind, by) == [ind EXCEPT !.start = ind.start + by]

increase_start(ind, by) == [ind EXCEPT !.start = offset_to_index(ind, by)]

\* impl Storable for StableRingBufferIndices. Bytes are 0..255.
STABLE_RING_BUFFER_INDICES_SIZE == 3 * 8

\* u64::to_le_bytes: count bytes, least significant first.
RECURSIVE to_le_bytes(_, _)
to_le_bytes(n, count) ==
    IF count = 0 THEN <<>> ELSE <<n % 256>> \o to_le_bytes(n \div 256, count - 1)

\* u64::from_le_bytes.
RECURSIVE from_le_bytes(_)
from_le_bytes(b) == IF b = <<>> THEN 0 ELSE b[1] + 256 * from_le_bytes(Tail(b))

to_bytes_lenFirst(ind) ==
    to_le_bytes(ind.len, 8) \o to_le_bytes(ind.start, 8) \o to_le_bytes(ind.capacity, 8)

to_bytes(ind) ==
    to_le_bytes(ind.start, 8) \o to_le_bytes(ind.len, 8) \o to_le_bytes(ind.capacity, 8)

\* bytes[from..to]: panics when the range ends past the slice.
slice(bytes, from, to) ==
    IF to > Len(bytes) THEN [panic |-> TRUE, bytes |-> <<>>]
    ELSE [panic |-> FALSE, bytes |-> SubSeq(bytes, from + 1, to)]

\* The result of from_bytes: a panic, or the record decoded.
from_bytes(bytes) ==
    LET s == slice(bytes, 0, 8)
        l == slice(bytes, 8, 16)
        c == slice(bytes, 16, 24)
    IN  IF s.panic \/ l.panic \/ c.panic
        THEN [panic |-> TRUE, value |-> None]
        ELSE [panic |-> FALSE,
              value |-> Some([start |-> from_le_bytes(s.bytes),
                              len |-> from_le_bytes(l.bytes),
                              capacity |-> from_le_bytes(c.bytes)])]

----------------------------------------------------------------------------
(* StableRingBuffer: the closures run by with_indices_data_mut.  Each      *)
(* yields the index record to store back, the vector, the value returned   *)
(* and whether the closure aborted (an `expect` failed or the vector was   *)
(* indexed out of range).  Every abort point of the source precedes the    *)
(* first write, so an aborted closure leaves indices and data as they were.*)

Ok(ind, d, r) == [indices |-> ind, data |-> d, ret |-> r, panic |-> FALSE]

Panic(ind, d) == [indices |-> ind, data |-> d, ret |-> None, panic |-> TRUE]

clear_keepData(ind, d) ==
    IF ind.capacity = 0 THEN Panic(ind, d)
    ELSE Ok(IndicesNew(ind.capacity), d, None)

clear(ind, d) ==
    IF ind.capacity = 0 THEN Panic(ind, d)
    ELSE Ok(IndicesNew(ind.capacity), vec_clear(d), None)

\* The elements resize keeps: offsets elements_to_copy-1 .. 0 from the end,
\* i.e. oldest kept element first.  An entry is None where the source's
\* `expect` would abort.
resize_elements(ind, d, elements_to_copy) ==
    [k \in 1..elements_to_copy |->
        LET idx == indices_nth_element_from_end(ind, elements_to_copy - k)
        IN  IF idx = None THEN None ELSE vec_get(d, idx[1])]

resize_body_keepStart(ind, d, new_capacity) ==
    LET elements_to_copy == min(ind.len, new_capacity)
        elements == resize_elements(ind, d, elements_to_copy)
    IN  IF \E k \in 1..elements_to_copy : elements[k] = None
        THEN Panic(ind, d)
        ELSE Ok([start |-> ind.start % new_capacity, len |-> elements_to_copy,
                 capacity |-> new_capacity],
                [k \in 1..elements_to_copy |-> elements[k][1]],
                None)

resize_body_noClear(ind, d, new_capacity) ==
    LET elements_to_copy == min(ind.len, new_capacity)
        elements == resize_elements(ind, d, elements_to_copy)
    IN  IF \E k \in 1..elements_to_copy : elements[k] = None
        THEN Panic(ind, d)
        ELSE Ok(increase_len(IndicesNew(new_capacity), elements_to_copy),
                d \o [k \in 1..elements_to_copy |-> elements[k][1]],
                None)

resize_body(ind, d, new_capacity) ==
    LET elements_to_copy == min(ind.len, new_capacity)
        elements == resize_elements(ind, d, elements_to_copy)
    IN  IF \E k \in 1..elements_to_copy : elements[k] = None
        THEN Panic(ind, d)
        ELSE Ok(increase_len(IndicesNew(new_capacity), elements_to_copy),
                [k \in 1..elements_to_copy |-> elements[k][1]],
                None)

resize_fromStart(ind, d, new_capacity) ==
    LET elements_to_copy == min(ind.len, new_capacity)
        elements == [k \in 1..elements_to_copy |->
                        LET idx == indices_nth_element(ind, k - 1)
                        IN  IF idx = None THEN None ELSE vec_get(d, idx[1])]
    IN  IF new_capacity = ind.capacity THEN Ok(ind, d, None)
        ELSE IF \E k \in 1..elements_to_copy : elements[k] = None
        THEN Panic(ind, d)
        ELSE Ok(increase_len(IndicesNew(new_capacity), elements_to_copy),
                [k \in 1..elements_to_copy |-> elements[k][1]],
                None)

resize_noEarlyReturn(ind, d, new_capacity) == resize_body(ind, d, new_capacity)

resize(ind, d, new_capacity) ==
    IF new_capacity = ind.capacity THEN Ok(ind, d, None)
    ELSE resize_body(ind, d, new_capacity)

push_noAdvance(ind, d, val) ==
    LET new_index == offset_to_index(ind, ind.len)
        full == ind.len = ind.capacity
        got == vec_get(d, new_index)
        ind1 == IF full THEN ind ELSE increase_len(ind, 1)
    IN  IF full /\ got = None THEN Panic(ind, d)
        ELSE IF new_index = vec_len(d)
             THEN Ok(ind1, vec_push(d, val), IF full THEN got ELSE None)
        ELSE IF new_index < vec_len(d)
             THEN Ok(ind1, vec_set(d, new_index, val), IF full THEN got ELSE None)
        ELSE Panic(ind, d)

push_returnsOverwritten(ind, d, val) ==
    LET new_index == offset_to_index(ind, ind.len)
        full == ind.len = ind.capacity
        got == vec_get(d, new_index)
        ind1 == IF full THEN increase_start(ind, 1) ELSE increase_len(ind, 1)
    IN  IF full /\ got = None THEN Panic(ind, d)
        ELSE IF new_index = vec_len(d)
             THEN Ok(ind1, vec_push(d, val), got)
        ELSE IF new_index < vec_len(d)
             THEN Ok(ind1, vec_set(d, new_index, val), got)
        ELSE Panic(ind, d)

push(ind, d, val) ==
    LET new_index == offset_to_index(ind, ind.len)
        full == ind.len = ind.capacity
        got == vec_get(d, new_index)
        ind1 == IF full THEN increase_start(ind, 1) ELSE increase_len(ind, 1)
        replaced == IF full THEN got ELSE None
    IN  IF full /\ got = None THEN Panic(ind, d)
        ELSE IF new_index = vec_len(d)
             THEN Ok(ind1, vec_push(d, val), replaced)
        ELSE IF new_index < vec_len(d)
             THEN Ok(ind1, vec_set(d, new_index, val), replaced)
        ELSE Panic(ind, d)

pop_first(ind, d) ==
    LET new_len == checked_sub(ind.len, 1)
    IN  IF new_len = None THEN Ok(ind, d, None)
        ELSE Ok(decrease_len(ind, 1), d, vec_get(d, ind.start))

pop_keepLen(ind, d) ==
    LET new_len == checked_sub(ind.len, 1)
    IN  IF new_len = None THEN Ok(ind, d, None)
        ELSE Ok(ind, d, vec_get(d, offset_to_index(ind, new_len[1])))

pop(ind, d) ==
    LET new_len == checked_sub(ind.len, 1)
    IN  IF new_len = None THEN Ok(ind, d, None)
        ELSE LET ind1 == decrease_len(ind, 1)
                 index == offset_to_index(ind1, new_len[1])
             IN  Ok(ind1, d, vec_get(d, index))

truncate(ind, d, n) == Ok(decrease_len(ind, n), d, None)

nth_element(ind, d, n) ==
    LET index == indices_nth_element(ind, n)
    IN  IF index = None THEN None ELSE vec_get(d, index[1])

nth_element_from_end(ind, d, n) ==
    LET index == indices_nth_element_from_end(ind, n)
    IN  IF index = None THEN None ELSE vec_get(d, index[1])

first(ind, d) == nth_element(ind, d, 0)

last(ind, d) == nth_element_from_end(ind, d, 0)

----------------------------------------------------------------------------
(* BTreeMapStructure for BTreeMap: the backing ordered map.  A map is a    *)
(* function from the set of its keys to their values; a call yields the    *)
(* map afterwards and the value returned.                                  *)

EmptyMap == <<>>

MinKey(m) == CHOOSE k \in DOMAIN m : \A j \in DOMAIN m : k <= j

MaxKeyOf(m) == CHOOSE k \in DOMAIN m : \A j \in DOMAIN m : k >= j

Without(m, key) == [x \in (DOMAIN m) \ {key} |-> m[x]]

bt_get(m, key) == IF key \in DOMAIN m THEN Some(m[key]) ELSE None

bt_contains_key(m, key) == key \in DOMAIN m

bt_len(m) == Cardinality(DOMAIN m)

bt_is_empty(m) == DOMAIN m = {}

bt_insert(m, key, value) ==
    [map |-> [x \in (DOMAIN m) \cup {key} |-> IF x = key THEN value ELSE m[x]],
     ret |-> bt_get(m, key)]

bt_remove(m, key) == [map |-> Without(m, key), ret |-> bt_get(m, key)]

bt_pop_first(m) ==
    IF DOMAIN m = {} THEN [map |-> m, ret |-> None]
    ELSE [map |-> Without(m, MinKey(m)), ret |-> Some(<<MinKey(m), m[MinKey(m)]>>)]

bt_pop_last(m) ==
    IF DOMAIN m = {} THEN [map |-> m, ret |-> None]
    ELSE [map |-> Without(m, MaxKeyOf(m)),
          ret |-> Some(<<MaxKeyOf(m), m[MaxKeyOf(m)]>>)]

bt_first_key_value(m) ==
    IF DOMAIN m = {} THEN None ELSE Some(<<MinKey(m), m[MinKey(m)]>>)

bt_last_key_value(m) ==
    IF DOMAIN m = {} THEN None ELSE Some(<<MaxKeyOf(m), m[MaxKeyOf(m)]>>)

bt_clear(m) == EmptyMap

\* btreemap::Iter over the entries with the given keys, in ascending order.
RECURSIVE BtIter(_, _)
BtIter(m, keys) ==
    IF keys = {} THEN <<>>
    ELSE LET k == CHOOSE x \in keys : \A y \in keys : x <= y
         IN  <<<<k, m[k]>>>> \o BtIter(m, keys \ {k})

bt_iter(m) == BtIter(m, DOMAIN m)

bt_iter_from_prev_key_fromBound(m, bound) ==
    BtIter(m, {k \in DOMAIN m : k >= bound})

\* Starts at the largest key strictly less than bound; empty when there is
\* no such key.
bt_iter_from_prev_key(m, bound) ==
    LET below == {k \in DOMAIN m : k < bound}
    IN  IF below = {} THEN <<>>
        ELSE LET prev_key == CHOOSE x \in below : \A y \in below : x >= y
             IN  BtIter(m, {k \in DOMAIN m : k >= prev_key})

----------------------------------------------------------------------------
(* LruCache (common::lru): a cache of at most `cap` entries, kept here as  *)
(* the sequence of its entries from least to most recently used.           *)

lru_new(cap) == [cap |-> cap, items |-> <<>>]

lru_contains_key(c, key) == \E i \in 1..Len(c.items) : c.items[i].key = key

lru_is_empty(c) == Len(c.items) = 0

lru_peek(c, key) ==
    IF lru_contains_key(c, key)
    THEN Some(c.items[CHOOSE i \in 1..Len(c.items) : c.items[i].key = key].value)
    ELSE None

lru_without(items, key) == SelectSeq(items, LAMBDA e : e.key # key)

lru_evict_never(items, cap) == items

\* Drops least recently used entries until at most cap are left.
lru_evict(items, cap) ==
    IF Len(items) > cap THEN SubSeq(items, Len(items) - cap + 1, Len(items))
    ELSE items

lru_insert(c, key, value) ==
    [cache |-> [c EXCEPT !.items =
                    lru_evict(Append(lru_without(c.items, key),
                                     [key |-> key, value |-> value]), c.cap)],
     ret |-> lru_peek(c, key)]

lru_get_or_insert_with_noInsert(c, key, computed) ==
    IF lru_contains_key(c, key)
    THEN [cache |-> c, ret |-> lru_peek(c, key), called |-> FALSE]
    ELSE [cache |-> c, ret |-> computed, called |-> TRUE]

lru_get_or_insert_with_noRefresh(c, key, computed) ==
    IF lru_contains_key(c, key)
    THEN [cache |-> c, ret |-> lru_peek(c, key), called |-> FALSE]
    ELSE IF computed = None
    THEN [cache |-> c, ret |-> None, called |-> TRUE]
    ELSE [cache |-> lru_insert(c, key, computed[1]).cache,
          ret |-> computed,
          called |-> TRUE]

\* `computed` is what the closure yields for key; `called` tells whether the
\* closure ran.
lru_get_or_insert_with(c, key, computed) ==
    IF lru_contains_key(c, key)
    THEN [cache |-> [c EXCEPT !.items =
                        Append(lru_without(c.items, key),
                               [key |-> key, value |-> lru_peek(c, key)[1]])],
          ret |-> lru_peek(c, key),
          called |-> FALSE]
    ELSE IF computed = None
    THEN [cache |-> c, ret |-> None, called |-> TRUE]
    ELSE [cache |-> lru_insert(c, key, computed[1]).cache,
          ret |-> computed,
          called |-> TRUE]

lru_remove(c, key) ==
    [cache |-> [c EXCEPT !.items = lru_without(c.items, key)],
     ret |-> lru_peek(c, key)]

lru_clear(c) == [c EXCEPT !.items = <<>>]

----------------------------------------------------------------------------
(* CachedBTreeMap: m is [inner, cache]; a call yields both afterwards, the *)
(* value returned and whether the backing map was queried.                 *)

CachedResult(inner_, cache_, r, q) ==
    [inner |-> inner_, cache |-> cache_, ret |-> r, queried |-> q]

with_map(inner_, max_cache_items_) ==
    [inner |-> inner_, cache |-> lru_new(max_cache_items_)]

cached_get(m, key) ==
    LET r == lru_get_or_insert_with(m.cache, key, bt_get(m.inner, key))
    IN  CachedResult(m.inner, r.cache, r.ret, r.called)

cached_insert_innerOnly(m, key, value) ==
    LET i == bt_insert(m.inner, key, value)
    IN  CachedResult(i.map, m.cache, i.ret, TRUE)

cached_insert_returnsCached(m, key, value) ==
    LET c == lru_insert(m.cache, key, value)
        i == bt_insert(m.inner, key, value)
    IN  CachedResult(i.map, c.cache, c.ret, TRUE)

cached_insert(m, key, value) ==
    LET c == lru_insert(m.cache, key, value)
        i == bt_insert(m.inner, key, value)
    IN  CachedResult(i.map, c.cache, i.ret, TRUE)

cached_remove_innerOnly(m, key) ==
    LET i == bt_remove(m.inner, key)
    IN  CachedResult(i.map, m.cache, i.ret, TRUE)

cached_remove(m, key) ==
    LET c == lru_remove(m.cache, key)
        i == bt_remove(m.inner, key)
    IN  CachedResult(i.map, c.cache, i.ret, TRUE)

cached_pop_first_keepCache(m) ==
    LET i == bt_pop_first(m.inner)
    IN  CachedResult(i.map, m.cache, i.ret, TRUE)

cached_pop_first(m) ==
    LET i == bt_pop_first(m.inner)
    IN  IF i.ret = None THEN CachedResult(m.inner, m.cache, None, TRUE)
        ELSE CachedResult(i.map, lru_remove(m.cache, i.ret[1][1]).cache, i.ret, TRUE)

cached_pop_last_keepCache(m) ==
    LET i == bt_pop_last(m.inner)
    IN  CachedResult(i.map, m.cache, i.ret, TRUE)

cached_pop_last(m) ==
    LET i == bt_pop_last(m.inner)
    IN  IF i.ret = None THEN CachedResult(m.inner, m.cache, None, TRUE)
        ELSE CachedResult(i.map, lru_remove(m.cache, i.ret[1][1]).cache, i.ret, TRUE)

cached_len(m) == bt_len(m.inner)

cached_contains_key(m, key) ==
    lru_contains_key(m.cache, key) \/ bt_contains_key(m.inner, key)

cached_is_empty(m) == lru_is_empty(m.cache) /\ bt_is_empty(m.inner)

cached_clear_innerOnly(m) == CachedResult(bt_clear(m.inner), m.cache, None, TRUE)

cached_clear(m) == CachedResult(bt_clear(m.inner), lru_clear(m.cache), None, TRUE)

cached_first_key_value_cachesEntry(m) ==
    LET found == bt_first_key_value(m.inner)
    IN  IF found = None THEN CachedResult(m.inner, m.cache, None, TRUE)
        ELSE CachedResult(m.inner, lru_insert(m.cache, found[1][1], found[1][2]).cache,
                          found, TRUE)

cached_first_key_value(m) ==
    CachedResult(m.inner, m.cache, bt_first_key_value(m.inner), TRUE)

cached_last_key_value(m) ==
    CachedResult(m.inner, m.cache, bt_last_key_value(m.inner), TRUE)

cached_iter_from_prev_key(m, bound) == bt_iter_from_prev_key(m.inner, bound)

----------------------------------------------------------------------------
(* Codecs (common::codec, test_utils).  UserV1 is [name], UserV2 is        *)
(* [name, age] with age an Option<u8>; VersionedUser is the stored enum,   *)
(* kept as [tag, user].  A Cow is [value, borrowed].                       *)

Names == {"roger", "brian"}

Ages == {None, Some(42)}

UserV1Set == [name : Names]

UserV2Set == [name : Names, age : Ages]

V1(user_v1) == [tag |-> "V1", user |-> user_v1]

V2(user_v2) == [tag |-> "V2", user |-> user_v2]

VersionedUserSet == {V1(u) : u \in UserV1Set} \cup {V2(u) : u \in UserV2Set}

DefaultCodec_decode(source) == source

DefaultCodec_decode_ref(source) == [value |-> source, borrowed |-> TRUE]

DefaultCodec_encode(dest) == dest

UserCodec_decode_dropAge(source) == [name |-> source.user.name, age |-> None]

UserCodec_decode_noName(source) ==
    IF source.tag = "V1" THEN [name |-> "", age |-> None] ELSE source.user

UserCodec_decode(source) ==
    IF source.tag = "V1" THEN [name |-> source.user.name, age |-> None]
    ELSE source.user

UserCodec_decode_ref_noName(source) ==
    IF source.tag = "V1"
    THEN [value |-> [name |-> "", age |-> None], borrowed |-> FALSE]
    ELSE [value |-> source.user, borrowed |-> TRUE]

UserCodec_decode_ref(source) ==
    IF source.tag = "V1"
    THEN [value |-> [name |-> source.user.name, age |-> None], borrowed |-> FALSE]
    ELSE [value |-> source.user, borrowed |-> TRUE]

UserCodec_encode(dest) == V2(dest)

\* Option::map with the codec's decode.
MapDecode(opt) == IF opt = None THEN None ELSE Some(UserCodec_decode(opt[1]))

\* Option::map over a (key, value) pair.
MapDecodePair(opt) ==
    IF opt = None THEN None ELSE Some(<<opt[1][1], UserCodec_decode(opt[1][2])>>)

----------------------------------------------------------------------------
(* VersionedBTreeMap over UserCodec: inner maps keys to stored variants.   *)
(* A call yields the inner map afterwards and the value returned.          *)

VResult(inner_, r) == [inner |-> inner_, ret |-> r]

versioned_get_migrating(inner_, key) ==
    IF key \in DOMAIN inner_
    THEN VResult(bt_insert(inner_, key,
                           UserCodec_encode(UserCodec_decode(inner_[key]))).map,
                 MapDecode(bt_get(inner_, key)))
    ELSE VResult(inner_, None)

versioned_get(inner_, key) == VResult(inner_, MapDecode(bt_get(inner_, key)))

versioned_insert_keepLegacy(inner_, key, value) ==
    LET enc == IF key \in DOMAIN inner_ /\ inner_[key].tag = "V1"
               THEN V1([name |-> value.name])
               ELSE UserCodec_encode(value)
        r == bt_insert(inner_, key, enc)
    IN  VResult(r.map, MapDecode(r.ret))

versioned_insert(inner_, key, value) ==
    LET r == bt_insert(inner_, key, UserCodec_encode(value))
    IN  VResult(r.map, MapDecode(r.ret))

versioned_remove(inner_, key) ==
    LET r == bt_remove(inner_, key)
    IN  VResult(r.map, MapDecode(r.ret))

versioned_pop_first(inner_) ==
    LET r == bt_pop_first(inner_)
    IN  VResult(r.map, MapDecodePair(r.ret))

versioned_pop_last_popsFirst(inner_) ==
    LET r == bt_pop_first(inner_)
    IN  VResult(r.map, MapDecodePair(r.ret))

versioned_pop_last(inner_) ==
    LET r == bt_pop_last(inner_)
    IN  VResult(r.map, MapDecodePair(r.ret))

versioned_contains_key(inner_, key) == VResult(inner_, bt_contains_key(inner_, key))

versioned_first_key_value(inner_) ==
    VResult(inner_, MapDecodePair(bt_first_key_value(inner_)))

versioned_last_key_value(inner_) ==
    VResult(inner_, MapDecodePair(bt_last_key_value(inner_)))

versioned_len(inner_) == VResult(inner_, bt_len(inner_))

versioned_clear(inner_) == VResult(bt_clear(inner_), None)

\* The entries in ascending key order, as the iterator yields them.
RECURSIVE IterFrom(_, _)
IterFrom(inner_, keys) ==
    IF keys = {} THEN <<>>
    ELSE LET k == CHOOSE x \in keys : \A y \in keys : x <= y
         IN  <<<<k, UserCodec_decode(inner_[k])>>>> \o IterFrom(inner_, keys \ {k})

versioned_iter(inner_) == VResult(inner_, IterFrom(inner_, DOMAIN inner_))

\* VersionedBTreeMapIter: decodes every entry the inner iterator yields.
VersionedBTreeMapIter(entries) ==
    [i \in 1..Len(entries) |-> <<entries[i][1], UserCodec_decode(entries[i][2])>>]

versioned_iter_from_prev_key(inner_, bound) ==
    VResult(inner_, VersionedBTreeMapIter(bt_iter_from_prev_key(inner_, bound)))

(* VersionedStableCell over UserCodec: the cell holds one stored variant.  *)

VCellResult(cell_, r) == [cell |-> cell_, ret |-> r]

versioned_cell_get(cell_) == VCellResult(cell_, UserCodec_decode_ref(cell_).value)

versioned_cell_set(cell_, value) == VCellResult(UserCodec_encode(value), None)

----------------------------------------------------------------------------
(* Constructors. A memory is None while it is empty and Some(x) once it    *)
(* holds an instance whose contents are x. init reopens what the memory    *)
(* holds (and builds an empty instance in an empty memory), new overwrites *)
(* whatever the memory held.                                               *)

BTreeMap_init(memory) == IF memory = None THEN Some(EmptyMap) ELSE memory

BTreeMap_new(memory) == Some(EmptyMap)

versioned_with_map(map) == map

VersionedBTreeMap_new(memory) == versioned_with_map(BTreeMap_new(memory))

VersionedBTreeMap_init(memory) == versioned_with_map(BTreeMap_init(memory))

versioned_is_empty(inner_) == VResult(inner_, bt_is_empty(inner_))

Vec_init(memory) == IF memory = None THEN Some(<<>>) ELSE memory

Vec_new(memory) == Some(<<>>)

VecExt_init(memory) == Vec_init(memory)

VecExt_new(memory) == Vec_new(memory)

vec_is_empty(d) == Len(d) = 0

StableCell_init(memory, value) == IF memory = None THEN Some(value) ELSE memory

StableCell_new(memory, value) == Some(value)

VersionedStableCell_init(memory, default_value) ==
    StableCell_init(memory, UserCodec_encode(default_value))

VersionedStableCell_new_reopens(memory, default_value) ==
    StableCell_init(memory, UserCodec_encode(default_value))

VersionedStableCell_new(memory, default_value) ==
    StableCell_new(memory, UserCodec_encode(default_value))

\* The two memories of a ring buffer once a call has returned: the vector's
\* memory holds the vector, the cell's memory the bytes StableCell::set wrote.
Memories(ind, d) == [data |-> Some(d), indices |-> Some(to_bytes(ind))]

new_with_freshCell(data_, indices_) ==
    [data |-> data_, indices |-> IndicesNew(indices_.capacity)]

\* StableRingBuffer::new_with.
new_with(data_, indices_) == [data |-> data_, indices |-> indices_]

\* A buffer opened over two memories: new_with over VecExt::init and
\* StableCell::init, whose default is the record of a new buffer.
reopen(memories, default_history_size) ==
    LET cell == StableCell_init(memories.indices,
                                to_bytes(IndicesNew(default_history_size)))
        decoded == from_bytes(cell[1])
    IN  IF decoded.panic THEN [panic |-> TRUE, data |-> <<>>, indices |-> IndicesNew(1)]
        ELSE [panic |-> FALSE] @@
             new_with(VecExt_init(memories.data)[1], decoded.value[1])

----------------------------------------------------------------------------
(* AuthService (ic_mple_auth; PermissionService of ic_mpl_permissions has  *)
(* the same methods over a fixed Permission enum). storage maps a          *)
(* principal to the permission set of its PermissionList; lists of         *)
(* permissions are sequences.                                              *)

Anonymous == "anonymous"

Principals == {Anonymous, "principal_1", "principal_2"}

Permissions == {"ReadLogs", "UpdateLogs"}

AuthOk(v) == [ok |-> TRUE, val |-> v, err |-> ""]

AuthErr(e) == [ok |-> FALSE, val |-> {}, err |-> e]

check_anonymous_principal_allowAll(principal) == AuthOk({})

check_anonymous_principal(principal) ==
    IF principal = Anonymous THEN AuthErr("AnonimousUserNotAllowed") ELSE AuthOk({})

has_all_permissions(storage, principal, permissions) ==
    LET permissions_list == bt_get(storage, principal)
    IN  IF permissions_list # None
        THEN \A i \in 1..Len(permissions) : permissions[i] \in permissions_list[1]
        ELSE Len(permissions) = 0

has_any_permission_noEmpty(storage, principal, permissions) ==
    LET permissions_list == bt_get(storage, principal)
    IN  IF permissions_list # None
        THEN \E i \in 1..Len(permissions) : permissions[i] \in permissions_list[1]
        ELSE Len(permissions) = 0

has_any_permission(storage, principal, permissions) ==
    LET permissions_list == bt_get(storage, principal)
    IN  IF permissions_list # None
        THEN \/ \E i \in 1..Len(permissions) : permissions[i] \in permissions_list[1]
             \/ Len(permissions) = 0
        ELSE Len(permissions) = 0

check_has_all_permissions(storage, principal, permissions) ==
    IF has_all_permissions(storage, principal, permissions)
    THEN AuthOk({}) ELSE AuthErr("NotAuthorized")

check_has_permission(storage, principal, permission) ==
    IF has_all_permissions(storage, principal, <<permission>>)
    THEN AuthOk({}) ELSE AuthErr("NotAuthorized")

check_has_any_permission(storage, principal, permissions) ==
    IF has_any_permission(storage, principal, permissions)
    THEN AuthOk({}) ELSE AuthErr("NotAuthorized")

\* Option::unwrap_or_default of a PermissionList.
unwrap_or_default(opt) == IF opt = None THEN {} ELSE opt[1]

add_permissions(storage, principal, permissions) ==
    LET anon == check_anonymous_principal(principal)
        existing_permissions ==
            unwrap_or_default(bt_get(storage, principal))
                \cup {permissions[i] : i \in 1..Len(permissions)}
    IN  IF ~anon.ok THEN [storage |-> storage, ret |-> anon]
        ELSE [storage |-> bt_insert(storage, principal, existing_permissions).map,
              ret |-> AuthOk(existing_permissions)]

remove_permissions(storage, principal, permissions) ==
    LET anon == check_anonymous_principal(principal)
        existing_permissions ==
            {x \in unwrap_or_default(bt_get(storage, principal)) :
                ~\E i \in 1..Len(permissions) : permissions[i] = x}
    IN  IF ~anon.ok THEN [storage |-> storage, ret |-> anon]
        ELSE [storage |-> IF existing_permissions # {}
                          THEN bt_insert(storage, principal, existing_permissions).map
                          ELSE bt_remove(storage, principal).map,
              ret |-> AuthOk(existing_permissions)]

get_permissions(storage, principal) == unwrap_or_default(bt_get(storage, principal))

auth_clear(storage) == bt_clear(storage)

----------------------------------------------------------------------------
(* MockCanisterClient. heap holds the two Arc<Mutex<HashMap<..>>> cells a  *)
(* client points to: [map, poisoned], map from a method name to its queue  *)
(* of responses. A client is [queries, updates], two indices into heap. A  *)
(* response is [ok, ty, val]: Ok(val) encoded from type ty, or Err(val).   *)
(* A call yields [heap, ret, panic, taken].                                *)

MockResult(heap, ret, panic, taken) ==
    [heap |-> heap, ret |-> ret, panic |-> panic, taken |-> taken]

\* #[derive(Default)]: two fresh, empty cells.
mock_default(heap) ==
    [heap |-> heap \o << [map |-> EmptyMap, poisoned |-> FALSE],
                         [map |-> EmptyMap, poisoned |-> FALSE] >>,
     client |-> [queries |-> Len(heap) + 1, updates |-> Len(heap) + 2]]

\* #[derive(Clone)]: Arc::clone of both cells.
mock_clone(heap, client) == [heap |-> heap, client |-> client]

\* entry(method).or_default().push_back(response) under the lock.
push_back(cell, method, response) ==
    LET queue == IF method \in DOMAIN cell.map THEN cell.map[method] ELSE <<>>
    IN  [cell EXCEPT !.map = bt_insert(cell.map, method, Append(queue, response)).map]

add_query_fn(heap, client, method, response) ==
    LET cell == heap[client.queries]
    IN  IF cell.poisoned THEN MockResult(heap, None, TRUE, None)
        ELSE MockResult([heap EXCEPT ![client.queries] = push_back(cell, method, response)],
                        None, FALSE, None)

add_update_fn(heap, client, method, response) ==
    LET cell == heap[client.updates]
    IN  IF cell.poisoned THEN MockResult(heap, None, TRUE, None)
        ELSE MockResult([heap EXCEPT ![client.updates] = push_back(cell, method, response)],
                        None, FALSE, None)

add_query(heap, client, method, response) ==
    add_query_fn(heap, client, method, response)

add_update(heap, client, method, response) ==
    add_update_fn(heap, client, method, response)

\* clear: the queries are locked and cleared, then the updates; a panic on
\* the second lock unwinds through the first guard and poisons it.
mock_clear(heap, client) ==
    LET q == heap[client.queries]
        u == heap[client.updates]
    IN  IF q.poisoned THEN MockResult(heap, None, TRUE, None)
        ELSE IF u.poisoned
        THEN MockResult([heap EXCEPT ![client.queries] =
                            [map |-> EmptyMap, poisoned |-> TRUE]],
                        None, TRUE, None)
        ELSE MockResult([heap EXCEPT ![client.queries] = [q EXCEPT !.map = EmptyMap],
                                     ![client.updates] = [u EXCEPT !.map = EmptyMap]],
                        None, FALSE, None)

\* get_mut(method).and_then(|v| v.pop_front()).expect(..), then the
\* response is run and decoded as R; the lock is held throughout, so each
\* panic poisons the cell.
mock_call_popBack(heap, at, method, R) ==
    LET cell == heap[at]
        queue == IF method \in DOMAIN cell.map THEN cell.map[method] ELSE <<>>
    IN  IF cell.poisoned THEN MockResult(heap, None, TRUE, None)
        ELSE IF queue = <<>>
        THEN MockResult([heap EXCEPT ![at].poisoned = TRUE], None, TRUE, None)
        ELSE LET response == queue[Len(queue)]
                 popped == [heap EXCEPT ![at].map[method] = SubSeq(queue, 1, Len(queue) - 1)]
             IN  IF response.ok /\ response.ty # R
                 THEN MockResult([popped EXCEPT ![at].poisoned = TRUE], None, TRUE,
                                 Some(response))
                 ELSE MockResult(popped, Some([ok |-> response.ok, val |-> response.val]),
                                 FALSE, Some(response))

mock_call(heap, at, method, R) ==
    LET cell == heap[at]
        queue == IF method \in DOMAIN cell.map THEN cell.map[method] ELSE <<>>
    IN  IF cell.poisoned THEN MockResult(heap, None, TRUE, None)
        ELSE IF queue = <<>>
        THEN MockResult([heap EXCEPT ![at].poisoned = TRUE], None, TRUE, None)
        ELSE LET response == Head(queue)
                 popped == [heap EXCEPT ![at].map[method] = Tail(queue)]
             IN  IF response.ok /\ response.ty # R
                 THEN MockResult([popped EXCEPT ![at].poisoned = TRUE], None, TRUE,
                                 Some(response))
                 ELSE MockResult(popped, Some([ok |-> response.ok, val |-> response.val]),
                                 FALSE, Some(response))

mock_update(heap, client, method, R) == mock_call(heap, client.updates, method, R)

mock_query(heap, client, method, R) == mock_call(heap, client.queries, method, R)

----------------------------------------------------------------------------
(* StableRingBufferIndices lookups with the width of u64.  An addition     *)
(* that leaves the type aborts in a build with overflow checks and wraps  *)
(* in a build without them; a lookup yields the index found, whether it   *)
(* aborted and whether an addition overflowed.                             *)

U64_MAX == 2 ^ U64Bits - 1

add_u64(a, b) == [overflow |-> a + b > U64_MAX, value |-> (a + b) % (U64_MAX + 1)]

LookupResult(ret, panic, overflow) == [ret |-> ret, panic |-> panic, overflow |-> overflow]

\* then_some evaluates its argument before the condition is looked at.
indices_nth_element_u64(ind, n, overflow_checks) ==
    LET sum == add_u64(ind.start, n)
    IN  IF overflow_checks /\ sum.overflow THEN LookupResult(None, TRUE, TRUE)
        ELSE LookupResult(IF n < ind.len THEN Some(sum.value % ind.capacity) ELSE None,
                          FALSE, sum.overflow)

indices_nth_element_from_end_u64(ind, index, overflow_checks) ==
    LET sum == add_u64(index, 1)
        index_from_start == checked_sub(ind.len, sum.value)
    IN  IF overflow_checks /\ sum.overflow THEN LookupResult(None, TRUE, TRUE)
        ELSE IF index_from_start = None THEN LookupResult(None, FALSE, sum.overflow)
        ELSE LET found == indices_nth_element_u64(ind, index_from_start[1], overflow_checks)
             IN  LookupResult(found.ret, found.panic, sum.overflow \/ found.overflow)

----------------------------------------------------------------------------
(* LoggerConfigService: the stored LogSettings and the handle of the       *)
(* logger once it is initialized.  A call yields the store and the handle *)
(* afterwards and the Result returned.                                     *)

DEFAULT_IN_MEMORY_RECORDS == 1024

DEFAULT_MAX_RECORD_LENGTH == 1024

LogOk == [ok |-> TRUE, err |-> ""]

LogErr(e) == [ok |-> FALSE, err |-> e]

LogResult(store, config, ret) == [store |-> store, logger_config |-> config, ret |-> ret]

\* impl From<LogServiceSettings> for LogSettings.
LogSettingsFrom(settings) ==
    [enable_console |-> IF settings.enable_console = None THEN FALSE
                        ELSE settings.enable_console[1],
     in_memory_records |-> IF settings.in_memory_records = None
                           THEN DEFAULT_IN_MEMORY_RECORDS
                           ELSE settings.in_memory_records[1],
     max_record_length |-> IF settings.max_record_length = None
                           THEN DEFAULT_MAX_RECORD_LENGTH
                           ELSE settings.max_record_length[1],
     log_filter |-> IF settings.log_filter = None THEN "warn" ELSE settings.log_filter[1]]

LoggerConfigService_new(store) == LogResult(store, None, LogOk)

\* init_log either hands out the handle of the logger it built from the
\* settings or fails; `built` is its outcome.
log_init(store, config, log_settings, built) ==
    IF config # None THEN LogResult(store, config, LogErr("AlreadyInitialized"))
    ELSE LET stored == IF log_settings # None THEN LogSettingsFrom(log_settings[1])
                       ELSE store
         IN  IF built.ok
             THEN LogResult(stored, Some([filter |-> stored.log_filter]), LogOk)
             ELSE LogResult(stored, None, built)

update_log_settings(store, filter) == [store EXCEPT !.log_filter = filter]

\* update_filters either takes the filter or rejects it; `updated` is its outcome.
set_logger_filter(store, config, filter, updated) ==
    LET stored == update_log_settings(store, filter)
    IN  IF config = None THEN LogResult(stored, config, LogErr("NotInitialized"))
        ELSE IF updated.ok THEN LogResult(stored, Some([filter |-> filter]), LogOk)
        ELSE LogResult(stored, config, updated)

get_logger_filter(store) == store.log_filter

----------------------------------------------------------------------------
(* IcTrait: the clock of IcPlatform and of the local TokioIcApi.  `t` is   *)
(* the instant of the call in nanoseconds since the epoch: what            *)
(* ic_cdk::api::time() returns and what SystemTime::now() stands at.       *)

E_9 == 1000000000

IcPlatform_time_nanos(t) == t

IcPlatform_time_secs(t) == t \div E_9

\* duration_since(UNIX_EPOCH).as_secs()
TokioIcApi_time_ns(t) == t \div E_9

\* duration_since(UNIX_EPOCH).as_nanos() as u64
TokioIcApi_time_secs(t) == t

----------------------------------------------------------------------------
(* State                                                                   *)

VARIABLES
    indices,    \* content of the StableCell<StableRingBufferIndices>
    data,       \* content of the VecExt<T>
    nextVal,    \* the next value handed to push (values are distinct)
    call,       \* the last completed call: [op, arg, ret, panic]
    prev,       \* [indices, data] right before the last call
    run,        \* the pushes made since the buffer was last empty, while
                \* nothing but push was called: a sequence of [val, ret]
    runValid,   \* FALSE once another call interrupted that run of pushes
    truncated,  \* values logically removed by truncate so far
    cmap,       \* the CachedBTreeMap: [inner, cache]
    cmax,       \* the max_cache_items the CachedBTreeMap was built with
    plain,      \* a plain BTreeMap that receives the same calls as cmap
    nextIns,    \* the next value handed to insert (values are distinct)
    ccall,      \* the last completed call on cmap: [op, key, val, ret, queried]
    cprev,      \* cmap, plain and touched right before the last call
    touched,    \* the cmax keys inserted or read with a result most recently,
                \* least recently touched first; a removed, popped or cleared
                \* key leaves
    vinner,     \* the BTreeMap inside the VersionedBTreeMap: key -> stored variant
    vcell,      \* the stored variant inside the VersionedStableCell
    vcall,      \* the last completed versioned call: [op, key, val, enc, ret]
    vprev,      \* [inner, cell] right before the last call
    mem,        \* the memories handed to the constructors: [map, vec, cell],
                \* each None (empty memory) or Some(contents of the instance)
    kcall,      \* the last constructor call: [op, default, before]
    omaps,      \* three ordered maps given the same calls: [plain, cached, versioned]
    latest,     \* per key, Some(value of the latest insert that no remove,
                \* pop or clear followed) or None
    ocall,      \* the last call on the three maps: [op, key, val, ret]
    oprev,      \* latest right before the last call
    wire,       \* the bytes in the slot of the index record
    wsrc,       \* the index record that was encoded into wire
    wres,       \* the last from_bytes(wire): [done, panic, value]
    astorage,   \* the AuthService's storage: principal -> permission set
    granted,    \* per principal, the permissions added and not removed or
                \* cleared since
    acall,      \* the last AuthService call: [op, principal, permissions, ret]
    aprev,      \* astorage right before the last call
    mheap,      \* the cells the mock clients point to
    mclients,   \* the mock clients: the first from default(), then its clones
    nextResp,   \* the next response registered (responses are distinct)
    expected,   \* per kind and method, the responses registered and not yet
                \* consumed or cleared, in registration order
    mcall,      \* the last mock call: [op, kind, method, panic, ret, taken, head]
    lind,       \* the index record the lookups are made on
    lbuild,     \* TRUE when the build has overflow checks (debug), FALSE when
                \* it has none (release)
    lcall,      \* the last lookup: [op, n, ret, panic, overflow]
    log_settings_store,  \* the LogSettings in the stable cell
    logger_config,       \* None, or Some(handle of the initialized logger)
    gcall,      \* the last LoggerConfigService call: [op, ret, store, config],
                \* store and config as they were right before it
    now,        \* the instant, in nanoseconds since the epoch
    treads      \* per implementation, what its two getters returned at this
                \* instant: [nanos, secs], each None until it is called

ringVars == <<indices, data, nextVal, call, prev, run, runValid, truncated>>

cachedVars == <<cmap, cmax, plain, nextIns, ccall, cprev, touched>>

versionedVars == <<vinner, vcell, vcall, vprev>>

constructVars == <<mem, kcall>>

orderedVars == <<omaps, latest, ocall, oprev>>

bytesVars == <<wire, wsrc, wres>>

authVars == <<astorage, granted, acall, aprev>>

mockVars == <<mheap, mclients, nextResp, expected, mcall>>

lookupVars == <<lind, lbuild, lcall>>

logVars == <<log_settings_store, logger_config, gcall>>

timeVars == <<now, treads>>

vars == <<ringVars, cachedVars, versionedVars, constructVars, orderedVars, bytesVars, authVars,
          mockVars, lookupVars, logVars, timeVars>>

\* What the actions of one component leave alone.
exceptRing ==
    <<cachedVars, versionedVars, constructVars, orderedVars, bytesVars, authVars,
      mockVars, lookupVars, logVars, timeVars>>

exceptCached ==
    <<ringVars, versionedVars, constructVars, orderedVars, bytesVars, authVars,
      mockVars, lookupVars, logVars, timeVars>>

exceptVersioned ==
    <<ringVars, cachedVars, constructVars, orderedVars, bytesVars, authVars,
      mockVars, lookupVars, logVars, timeVars>>

exceptConstruct ==
    <<ringVars, cachedVars, versionedVars, orderedVars, bytesVars, authVars,
      mockVars, lookupVars, logVars, timeVars>>

exceptBytes ==
    <<ringVars, cachedVars, versionedVars, constructVars, orderedVars, authVars,
      mockVars, lookupVars, logVars, timeVars>>

exceptAuth ==
    <<ringVars, cachedVars, versionedVars, constructVars, orderedVars, bytesVars,
      mockVars, lookupVars, logVars, timeVars>>

exceptMock ==
    <<ringVars, cachedVars, versionedVars, constructVars, orderedVars, bytesVars,
      authVars, lookupVars, logVars, timeVars>>

exceptOrdered ==
    <<ringVars, cachedVars, versionedVars, constructVars, bytesVars, authVars,
      mockVars, lookupVars, logVars, timeVars>>

exceptLookup ==
    <<ringVars, cachedVars, versionedVars, constructVars, orderedVars, bytesVars,
      authVars, mockVars, logVars, timeVars>>

exceptLog ==
    <<ringVars, cachedVars, versionedVars, constructVars, orderedVars, bytesVars,
      authVars, mockVars, lookupVars, timeVars>>

exceptTime ==
    <<ringVars, cachedVars, versionedVars, constructVars, orderedVars, bytesVars,
      authVars, mockVars, lookupVars, logVars>>

\* The logical contents: what nth_element(0), ..., nth_element(len - 1) return.
Logical(ind, d) == [i \in 1..ind.len |-> nth_element(ind, d, i - 1)]

\* The last n entries of a sequence.
LastN(s, n) == [i \in 1..n |-> s[Len(s) - n + i]]

\* The components a specification is not about stay in one fixed state.
RingIdle ==
    /\ indices = IndicesNew(1)
    /\ data = <<>>
    /\ nextVal = 1
    /\ call = [op |-> "new", arg |-> 0, ret |-> None, panic |-> FALSE]
    /\ prev = [indices |-> indices, data |-> data]
    /\ run = <<>>
    /\ runValid = TRUE
    /\ truncated = {}

CachedIdle ==
    /\ cmap = with_map(EmptyMap, 1)
    /\ cmax = 1
    /\ plain = EmptyMap
    /\ nextIns = 1
    /\ ccall = [op |-> "new", key |-> 0, val |-> 0, ret |-> None, queried |-> FALSE]
    /\ touched = <<>>
    /\ cprev = [cmap |-> cmap, plain |-> plain, touched |-> touched]

NoUser == [name |-> "", age |-> None]

VersionedIdle ==
    /\ vinner = EmptyMap
    /\ vcell = V2(NoUser)
    /\ vcall = [op |-> "new", key |-> 0, val |-> NoUser, enc |-> V2(NoUser),
                ret |-> None]
    /\ vprev = [inner |-> vinner, cell |-> vcell]

ConstructIdle ==
    /\ mem = [map |-> None, vec |-> None, cell |-> None]
    /\ kcall = [op |-> "start", default |-> NoUser, before |-> None]

OKeys == 1..MaxOKey

OrderedIdle ==
    /\ omaps = [plain |-> EmptyMap, cached |-> with_map(EmptyMap, 1),
                versioned |-> EmptyMap]
    /\ latest = [k \in OKeys |-> None]
    /\ ocall = [op |-> "new", key |-> 0, val |-> NoUser,
                ret |-> [plain |-> None, cached |-> None, versioned |-> None]]
    /\ oprev = [latest |-> latest]

BytesIdle ==
    /\ wsrc = IndicesNew(1)
    /\ wire = to_bytes(wsrc)
    /\ wres = [done |-> FALSE, panic |-> FALSE, value |-> None]

AuthIdle ==
    /\ astorage = EmptyMap
    /\ granted = [p \in Principals |-> {}]
    /\ acall = [op |-> "new", principal |-> Anonymous, permissions |-> <<>>,
                ret |-> AuthOk({})]
    /\ aprev = [storage |-> astorage]

MockKinds == {"query", "update"}

MockMethods == {"method_a", "method_b"}

\* MockCanisterClient::default().
MockIdle ==
    /\ mheap = mock_default(<<>>).heap
    /\ mclients = <<mock_default(<<>>).client>>
    /\ nextResp = 1
    /\ expected = [k \in MockKinds |-> [m \in MockMethods |-> <<>>]]
    /\ mcall = [op |-> "default", kind |-> "query", method |-> "method_a",
                panic |-> FALSE, ret |-> None, taken |-> None, head |-> None]

LookupIdle ==
    /\ lind = IndicesNew(1)
    /\ lbuild = FALSE
    /\ lcall = [op |-> "new", n |-> 0, ret |-> None, panic |-> FALSE, overflow |-> FALSE]

\* LogSettings::default(), as the tests of the service read it back.
LogSettingsDefault ==
    [enable_console |-> FALSE, in_memory_records |-> DEFAULT_IN_MEMORY_RECORDS,
     max_record_length |-> DEFAULT_MAX_RECORD_LENGTH, log_filter |-> "warn"]

LogIdle ==
    /\ log_settings_store = LogSettingsDefault
    /\ logger_config = None
    /\ gcall = [op |-> "new", ret |-> LogOk, store |-> log_settings_store,
                config |-> logger_config]

TimeImpls == {"IcPlatform", "TokioIcApi"}

TimeIdle ==
    /\ now = 0
    /\ treads = [i \in TimeImpls |-> [nanos |-> None, secs |-> None]]

\* The other components, idle.
IdleButRing ==
    CachedIdle /\ VersionedIdle /\ ConstructIdle /\ OrderedIdle /\ BytesIdle /\ AuthIdle
    /\ MockIdle /\ LookupIdle /\ LogIdle /\ TimeIdle

IdleButCached ==
    RingIdle /\ VersionedIdle /\ ConstructIdle /\ OrderedIdle /\ BytesIdle /\ AuthIdle
    /\ MockIdle /\ LookupIdle /\ LogIdle /\ TimeIdle

IdleButVersioned ==
    RingIdle /\ CachedIdle /\ ConstructIdle /\ OrderedIdle /\ BytesIdle /\ AuthIdle
    /\ MockIdle /\ LookupIdle /\ LogIdle /\ TimeIdle

IdleButConstruct ==
    RingIdle /\ CachedIdle /\ VersionedIdle /\ OrderedIdle /\ BytesIdle /\ AuthIdle
    /\ MockIdle /\ LookupIdle /\ LogIdle /\ TimeIdle

IdleButOrdered ==
    RingIdle /\ CachedIdle /\ VersionedIdle /\ ConstructIdle /\ BytesIdle /\ AuthIdle
    /\ MockIdle /\ LookupIdle /\ LogIdle /\ TimeIdle

IdleButBytes ==
    RingIdle /\ CachedIdle /\ VersionedIdle /\ ConstructIdle /\ OrderedIdle /\ AuthIdle
    /\ MockIdle /\ LookupIdle /\ LogIdle /\ TimeIdle

IdleButAuth ==
    RingIdle /\ CachedIdle /\ VersionedIdle /\ ConstructIdle /\ OrderedIdle /\ BytesIdle
    /\ MockIdle /\ LookupIdle /\ LogIdle /\ TimeIdle

IdleButMock ==
    RingIdle /\ CachedIdle /\ VersionedIdle /\ ConstructIdle /\ OrderedIdle /\ BytesIdle
    /\ AuthIdle /\ LookupIdle /\ LogIdle /\ TimeIdle

IdleButLookup ==
    RingIdle /\ CachedIdle /\ VersionedIdle /\ ConstructIdle /\ OrderedIdle /\ BytesIdle
    /\ AuthIdle /\ MockIdle /\ LogIdle /\ TimeIdle

IdleButLog ==
    RingIdle /\ CachedIdle /\ VersionedIdle /\ ConstructIdle /\ OrderedIdle /\ BytesIdle
    /\ AuthIdle /\ MockIdle /\ LookupIdle /\ TimeIdle

IdleButTime ==
    RingIdle /\ CachedIdle /\ VersionedIdle /\ ConstructIdle /\ OrderedIdle /\ BytesIdle
    /\ AuthIdle /\ MockIdle /\ LookupIdle /\ LogIdle

\* StableRingBuffer::new over fresh memories.
Init ==
    /\ \E capacity \in 1..MaxCap : indices = IndicesNew(capacity)
    /\ data = <<>>
    /\ nextVal = 1
    /\ call = [op |-> "new", arg |-> 0, ret |-> None, panic |-> FALSE]
    /\ prev = [indices |-> indices, data |-> data]
    /\ run = <<>>
    /\ runValid = TRUE
    /\ truncated = {}
    /\ IdleButRing

\* with_indices_data_mut: read the cell, run the closure, store the record.
Apply(op, arg, r) ==
    /\ prev' = [indices |-> indices, data |-> data]
    /\ indices' = r.indices
    /\ data' = r.data
    /\ call' = [op |-> op, arg |-> arg, ret |-> r.ret, panic |-> r.panic]
    /\ UNCHANGED exceptRing

\* A call other than push ends the run of pushes; a new run starts whenever
\* the call leaves the buffer empty.
EndRun(r) ==
    /\ run' = <<>>
    /\ runValid' = (r.indices.len = 0)

Push ==
    /\ nextVal <= MaxPush
    /\ LET r == push(indices, data, nextVal)
       IN  /\ Apply("push", nextVal, r)
           /\ run' = IF runValid THEN Append(run, [val |-> nextVal, ret |-> r.ret])
                     ELSE run
    /\ nextVal' = nextVal + 1
    /\ UNCHANGED <<runValid, truncated>>

Pop ==
    /\ LET r == pop(indices, data)
       IN  Apply("pop", 0, r) /\ EndRun(r)
    /\ UNCHANGED <<nextVal, truncated>>

Truncate ==
    \E n \in 0..MaxN :
        /\ LET r == truncate(indices, data, n)
               old == Logical(indices, data)
               new == Logical(r.indices, r.data)
           IN  /\ Apply("truncate", n, r)
               /\ EndRun(r)
               /\ truncated' = truncated \cup
                     {old[i][1] : i \in (Len(new) + 1)..Len(old)}
        /\ UNCHANGED nextVal

Resize ==
    \E new_capacity \in 1..MaxCap :
        /\ LET r == resize(indices, data, new_capacity)
           IN  Apply("resize", new_capacity, r) /\ EndRun(r)
        /\ UNCHANGED <<nextVal, truncated>>

Clear ==
    /\ LET r == clear(indices, data)
       IN  Apply("clear", 0, r) /\ EndRun(r)
    /\ UNCHANGED <<nextVal, truncated>>

\* The read-only calls (&self): they return a value and store nothing.
Read(op, arg, r) ==
    /\ prev' = [indices |-> indices, data |-> data]
    /\ call' = [op |-> op, arg |-> arg, ret |-> r, panic |-> FALSE]
    /\ UNCHANGED <<indices, data, nextVal, run, runValid, truncated>>
    /\ UNCHANGED exceptRing

NthElement ==
    \E n \in 0..MaxN : Read("nth_element", n, nth_element(indices, data, n))

NthElementFromEnd ==
    \E n \in 0..MaxN :
        Read("nth_element_from_end", n, nth_element_from_end(indices, data, n))

\* The process restarts between two calls: the buffer is dropped and opened
\* again over its two memories.
Restart ==
    \E default_history_size \in 1..MaxCap :
        \E b \in {reopen(Memories(indices, data), default_history_size)} :
            /\ prev' = [indices |-> indices, data |-> data]
            /\ indices' = b.indices
            /\ data' = b.data
            /\ call' = [op |-> "restart", arg |-> default_history_size,
                        ret |-> None, panic |-> b.panic]
            /\ UNCHANGED <<nextVal, run, runValid, truncated>>
            /\ UNCHANGED exceptRing

First == Read("first", 0, first(indices, data))

Last == Read("last", 0, last(indices, data))

Next ==
    \/ Push
    \/ Pop
    \/ Truncate
    \/ Resize
    \/ Clear
    \/ NthElement
    \/ NthElementFromEnd
    \/ First
    \/ Last
    \/ Restart

Spec == Init /\ [][Next]_vars

----------------------------------------------------------------------------
(* CachedBTreeMap: state machine                                           *)

Keys == 1..MaxKey

\* The value stored under key before the first call (with_map / init over a
\* map that already holds entries).
Stored0(key) == 10 + key

\* CachedBTreeMap::with_map over a backing map that may already hold entries.
InitCached ==
    /\ IdleButCached
    /\ \E max_cache_items \in 1..MaxCacheItems, S \in SUBSET Keys :
        /\ cmax = max_cache_items
        /\ cmap = with_map([k \in S |-> Stored0(k)], max_cache_items)
        /\ plain = [k \in S |-> Stored0(k)]
    /\ nextIns = 1
    /\ ccall = [op |-> "new", key |-> 0, val |-> 0, ret |-> None, queried |-> FALSE]
    /\ touched = <<>>
    /\ cprev = [cmap |-> cmap, plain |-> plain, touched |-> touched]

\* One call on the cached map (result r) and the same call on the plain map
\* (map afterwards p).
CachedApply(op, key, val, r, p) ==
    /\ cprev' = [cmap |-> cmap, plain |-> plain, touched |-> touched]
    /\ cmap' = [inner |-> r.inner, cache |-> r.cache]
    /\ plain' = p
    /\ ccall' = [op |-> op, key |-> key, val |-> val, ret |-> r.ret,
                 queried |-> r.queried]
    /\ UNCHANGED <<cmax, exceptCached>>

\* The key becomes the most recently touched one, and only the cmax most
\* recently touched keys are remembered; the key is forgotten.
Touch(keys, key) ==
    LET moved == Append(SelectSeq(keys, LAMBDA k : k # key), key)
    IN  IF Len(moved) > cmax THEN SubSeq(moved, Len(moved) - cmax + 1, Len(moved))
        ELSE moved

Untouch(keys, key) == SelectSeq(keys, LAMBDA k : k # key)

CachedGet ==
    \E key \in Keys :
        /\ CachedApply("get", key, 0, cached_get(cmap, key), plain)
        /\ touched' = IF bt_get(plain, key) # None THEN Touch(touched, key) ELSE touched
        /\ UNCHANGED nextIns

CachedInsert ==
    \E key \in Keys :
        /\ nextIns <= MaxInsert
        /\ CachedApply("insert", key, nextIns, cached_insert(cmap, key, nextIns),
                       bt_insert(plain, key, nextIns).map)
        /\ touched' = Touch(touched, key)
        /\ nextIns' = nextIns + 1

CachedRemove ==
    \E key \in Keys :
        /\ CachedApply("remove", key, 0, cached_remove(cmap, key),
                       bt_remove(plain, key).map)
        /\ touched' = Untouch(touched, key)
        /\ UNCHANGED nextIns

CachedPopFirst ==
    /\ CachedApply("pop_first", 0, 0, cached_pop_first(cmap), bt_pop_first(plain).map)
    /\ touched' = IF bt_pop_first(plain).ret = None THEN touched
                  ELSE Untouch(touched, bt_pop_first(plain).ret[1][1])
    /\ UNCHANGED nextIns

CachedPopLast ==
    /\ CachedApply("pop_last", 0, 0, cached_pop_last(cmap), bt_pop_last(plain).map)
    /\ touched' = IF bt_pop_last(plain).ret = None THEN touched
                  ELSE Untouch(touched, bt_pop_last(plain).ret[1][1])
    /\ UNCHANGED nextIns

CachedClear ==
    /\ CachedApply("clear", 0, 0, cached_clear(cmap), bt_clear(plain))
    /\ touched' = <<>>
    /\ UNCHANGED nextIns

CachedFirstKeyValue ==
    /\ CachedApply("first_key_value", 0, 0, cached_first_key_value(cmap), plain)
    /\ UNCHANGED <<nextIns, touched>>

CachedLastKeyValue ==
    /\ CachedApply("last_key_value", 0, 0, cached_last_key_value(cmap), plain)
    /\ UNCHANGED <<nextIns, touched>>

CachedContainsKey ==
    \E key \in Keys :
        /\ CachedApply("contains_key", key, 0,
                       CachedResult(cmap.inner, cmap.cache,
                                    Some(cached_contains_key(cmap, key)), FALSE),
                       plain)
        /\ UNCHANGED <<nextIns, touched>>

CachedIsEmpty ==
    /\ CachedApply("is_empty", 0, 0,
                   CachedResult(cmap.inner, cmap.cache, Some(cached_is_empty(cmap)), FALSE),
                   plain)
    /\ UNCHANGED <<nextIns, touched>>

NextCached ==
    \/ CachedGet
    \/ CachedInsert
    \/ CachedRemove
    \/ CachedPopFirst
    \/ CachedPopLast
    \/ CachedClear
    \/ CachedFirstKeyValue
    \/ CachedLastKeyValue
    \/ CachedContainsKey
    \/ CachedIsEmpty

SpecCached == InitCached /\ [][NextCached]_vars

----------------------------------------------------------------------------
(* VersionedBTreeMap / VersionedStableCell: state machine                  *)

VKeys == 1..MaxVKey

\* with_map over a BTreeMap, and init of a cell over a memory, that already
\* hold records of any stored variant.
InitVersioned ==
    /\ IdleButVersioned
    /\ \E S \in SUBSET VKeys : vinner \in [S -> VersionedUserSet]
    /\ vcell \in VersionedUserSet
    /\ vcall = [op |-> "new", key |-> 0, val |-> NoUser, enc |-> V2(NoUser),
                ret |-> None]
    /\ vprev = [inner |-> vinner, cell |-> vcell]

VApply(op, key, val, enc, r) ==
    /\ vprev' = [inner |-> vinner, cell |-> vcell]
    /\ vinner' = r.inner
    /\ vcall' = [op |-> op, key |-> key, val |-> val, enc |-> enc, ret |-> r.ret]
    /\ UNCHANGED <<vcell, exceptVersioned>>

VCellApply(op, val, enc, r) ==
    /\ vprev' = [inner |-> vinner, cell |-> vcell]
    /\ vcell' = r.cell
    /\ vcall' = [op |-> op, key |-> 0, val |-> val, enc |-> enc, ret |-> r.ret]
    /\ UNCHANGED <<vinner, exceptVersioned>>

VGet ==
    \E key \in VKeys :
        VApply("get", key, NoUser, V2(NoUser), versioned_get(vinner, key))

VInsert ==
    \E key \in VKeys, value \in UserV2Set :
        VApply("insert", key, value, UserCodec_encode(value),
               versioned_insert(vinner, key, value))

VRemove ==
    \E key \in VKeys :
        VApply("remove", key, NoUser, V2(NoUser), versioned_remove(vinner, key))

VPopFirst == VApply("pop_first", 0, NoUser, V2(NoUser), versioned_pop_first(vinner))

VPopLast == VApply("pop_last", 0, NoUser, V2(NoUser), versioned_pop_last(vinner))

VContainsKey ==
    \E key \in VKeys :
        VApply("contains_key", key, NoUser, V2(NoUser),
               versioned_contains_key(vinner, key))

VFirstKeyValue ==
    VApply("first_key_value", 0, NoUser, V2(NoUser), versioned_first_key_value(vinner))

VLastKeyValue ==
    VApply("last_key_value", 0, NoUser, V2(NoUser), versioned_last_key_value(vinner))

VLen == VApply("len", 0, NoUser, V2(NoUser), versioned_len(vinner))

VIter == VApply("iter", 0, NoUser, V2(NoUser), versioned_iter(vinner))

VClear == VApply("clear", 0, NoUser, V2(NoUser), versioned_clear(vinner))

VCellGet == VCellApply("cell_get", NoUser, V2(NoUser), versioned_cell_get(vcell))

VCellSet ==
    \E value \in UserV2Set :
        VCellApply("cell_set", value, UserCodec_encode(value),
                   versioned_cell_set(vcell, value))

\* encode followed by decode, for the user codec and for the identity codec.
UserCodecRoundTrip ==
    \E x \in UserV2Set :
        /\ vcall' = [op |-> "roundtrip_user", key |-> 0, val |-> x,
                     enc |-> UserCodec_encode(x),
                     ret |-> Some(UserCodec_decode(UserCodec_encode(x)))]
        /\ vprev' = [inner |-> vinner, cell |-> vcell]
        /\ UNCHANGED <<vinner, vcell, exceptVersioned>>

DefaultCodecRoundTrip ==
    \E x \in UserV2Set :
        /\ vcall' = [op |-> "roundtrip_default", key |-> 0, val |-> x,
                     enc |-> DefaultCodec_encode(x),
                     ret |-> Some(DefaultCodec_decode(DefaultCodec_encode(x)))]
        /\ vprev' = [inner |-> vinner, cell |-> vcell]
        /\ UNCHANGED <<vinner, vcell, exceptVersioned>>

NextVersioned ==
    \/ VGet
    \/ VInsert
    \/ VRemove
    \/ VPopFirst
    \/ VPopLast
    \/ VContainsKey
    \/ VFirstKeyValue
    \/ VLastKeyValue
    \/ VLen
    \/ VIter
    \/ VClear
    \/ VCellGet
    \/ VCellSet
    \/ UserCodecRoundTrip
    \/ DefaultCodecRoundTrip

SpecVersioned == InitVersioned /\ [][NextVersioned]_vars

----------------------------------------------------------------------------
(* Construction over a memory: state machine                               *)

\* The items pushed to the VecExt.
VecItems == {1, 2}

InitConstruct ==
    /\ IdleButConstruct
    /\ ConstructIdle

\* A constructor call on the memory of one structure; the instance built
\* before on that memory is dropped.
KApply(op, default, field, after) ==
    /\ kcall' = [op |-> op, default |-> default, before |-> mem[field]]
    /\ mem' = [mem EXCEPT ![field] = after]
    /\ UNCHANGED exceptConstruct

\* A write through the instance that is open on a memory.
KWrite(field, contents) ==
    /\ mem[field] # None
    /\ kcall' = [op |-> "write", default |-> NoUser, before |-> None]
    /\ mem' = [mem EXCEPT ![field] = Some(contents)]
    /\ UNCHANGED exceptConstruct

MapInit == KApply("map_init", NoUser, "map", VersionedBTreeMap_init(mem.map))

MapNew == KApply("map_new", NoUser, "map", VersionedBTreeMap_new(mem.map))

MapInsert ==
    \E key \in VKeys, value \in UserV2Set :
        KWrite("map", versioned_insert(mem.map[1], key, value).inner)

VecInit == KApply("vec_init", NoUser, "vec", VecExt_init(mem.vec))

VecNew == KApply("vec_new", NoUser, "vec", VecExt_new(mem.vec))

VecPush ==
    \E item \in VecItems :
        /\ mem.vec # None => vec_len(mem.vec[1]) < MaxVecLen
        /\ KWrite("vec", vec_push(mem.vec[1], item))

CellInit ==
    \E default_value \in UserV2Set :
        KApply("cell_init", default_value, "cell",
               VersionedStableCell_init(mem.cell, default_value))

CellNew ==
    \E default_value \in UserV2Set :
        KApply("cell_new", default_value, "cell",
               VersionedStableCell_new(mem.cell, default_value))

CellSet ==
    \E value \in UserV2Set :
        KWrite("cell", versioned_cell_set(mem.cell[1], value).cell)

\* A cell of the stored type itself (identity codec) writing a V1 record,
\* as an earlier version of the program did.
CellSetLegacy ==
    \E user \in UserV1Set :
        KWrite("cell", DefaultCodec_encode(V1(user)))

NextConstruct ==
    \/ MapInit
    \/ MapNew
    \/ MapInsert
    \/ VecInit
    \/ VecNew
    \/ VecPush
    \/ CellInit
    \/ CellNew
    \/ CellSet
    \/ CellSetLegacy

SpecConstruct == InitConstruct /\ [][NextConstruct]_vars

----------------------------------------------------------------------------
(* The three implementations of BTreeMapStructure, given the same calls    *)

\* The values inserted.
OValues == {[name |-> "roger", age |-> None], [name |-> "brian", age |-> Some(42)]}

\* The keys that hold a value according to latest.
Present(l) == {k \in OKeys : l[k] # None}

InitOrdered ==
    /\ IdleButOrdered
    /\ \E max_cache_items \in 1..MaxCacheItems :
        omaps = [plain |-> EmptyMap, cached |-> with_map(EmptyMap, max_cache_items),
                 versioned |-> EmptyMap]
    /\ latest = [k \in OKeys |-> None]
    /\ ocall = [op |-> "new", key |-> 0, val |-> NoUser,
                ret |-> [plain |-> None, cached |-> None, versioned |-> None]]
    /\ oprev = [latest |-> latest]

\* One call made on the three maps: rp, rc and rv are its results on the
\* plain, the cached and the versioned map.
OApply(op, key, val, rp, rc, rv, l) ==
    /\ oprev' = [latest |-> latest]
    /\ omaps' = [plain |-> rp.map,
                 cached |-> [inner |-> rc.inner, cache |-> rc.cache],
                 versioned |-> rv.inner]
    /\ ocall' = [op |-> op, key |-> key, val |-> val,
                 ret |-> [plain |-> rp.ret, cached |-> rc.ret, versioned |-> rv.ret]]
    /\ latest' = l
    /\ UNCHANGED exceptOrdered

\* A call that takes &self: the result r of a read of the plain map, and of
\* one of the cached map that does not go through the cache.
PlainRead(r) == [map |-> omaps.plain, ret |-> r]

CachedRead(r) == CachedResult(omaps.cached.inner, omaps.cached.cache, r, FALSE)

OInsert ==
    \E key \in OKeys, value \in OValues :
        OApply("insert", key, value,
               bt_insert(omaps.plain, key, value),
               cached_insert(omaps.cached, key, value),
               versioned_insert(omaps.versioned, key, value),
               [latest EXCEPT ![key] = Some(value)])

ORemove ==
    \E key \in OKeys :
        OApply("remove", key, NoUser,
               bt_remove(omaps.plain, key),
               cached_remove(omaps.cached, key),
               versioned_remove(omaps.versioned, key),
               [latest EXCEPT ![key] = None])

OClear ==
    OApply("clear", 0, NoUser,
           [map |-> bt_clear(omaps.plain), ret |-> None],
           cached_clear(omaps.cached),
           versioned_clear(omaps.versioned),
           [k \in OKeys |-> None])

OPopFirst ==
    OApply("pop_first", 0, NoUser,
           bt_pop_first(omaps.plain),
           cached_pop_first(omaps.cached),
           versioned_pop_first(omaps.versioned),
           [k \in OKeys |->
               IF \A j \in Present(latest) : k <= j THEN None ELSE latest[k]])

OPopLast ==
    OApply("pop_last", 0, NoUser,
           bt_pop_last(omaps.plain),
           cached_pop_last(omaps.cached),
           versioned_pop_last(omaps.versioned),
           [k \in OKeys |->
               IF \A j \in Present(latest) : k >= j THEN None ELSE latest[k]])

OGet ==
    \E key \in OKeys :
        OApply("get", key, NoUser,
               PlainRead(bt_get(omaps.plain, key)),
               cached_get(omaps.cached, key),
               versioned_get(omaps.versioned, key),
               latest)

OContainsKey ==
    \E key \in OKeys :
        OApply("contains_key", key, NoUser,
               PlainRead(bt_contains_key(omaps.plain, key)),
               CachedRead(cached_contains_key(omaps.cached, key)),
               versioned_contains_key(omaps.versioned, key),
               latest)

OLen ==
    OApply("len", 0, NoUser,
           PlainRead(bt_len(omaps.plain)),
           CachedRead(cached_len(omaps.cached)),
           versioned_len(omaps.versioned),
           latest)

OIsEmpty ==
    OApply("is_empty", 0, NoUser,
           PlainRead(bt_is_empty(omaps.plain)),
           CachedRead(cached_is_empty(omaps.cached)),
           versioned_is_empty(omaps.versioned),
           latest)

OFirstKeyValue ==
    OApply("first_key_value", 0, NoUser,
           PlainRead(bt_first_key_value(omaps.plain)),
           cached_first_key_value(omaps.cached),
           versioned_first_key_value(omaps.versioned),
           latest)

OLastKeyValue ==
    OApply("last_key_value", 0, NoUser,
           PlainRead(bt_last_key_value(omaps.plain)),
           cached_last_key_value(omaps.cached),
           versioned_last_key_value(omaps.versioned),
           latest)

OIterFromPrevKey ==
    \E bound \in 0..(MaxOKey + 1) :
        OApply("iter_from_prev_key", bound, NoUser,
               PlainRead(bt_iter_from_prev_key(omaps.plain, bound)),
               CachedRead(cached_iter_from_prev_key(omaps.cached, bound)),
               versioned_iter_from_prev_key(omaps.versioned, bound),
               latest)

NextOrdered ==
    \/ OInsert
    \/ ORemove
    \/ OClear
    \/ OPopFirst
    \/ OPopLast
    \/ OGet
    \/ OContainsKey
    \/ OLen
    \/ OIsEmpty
    \/ OFirstKeyValue
    \/ OLastKeyValue
    \/ OIterFromPrevKey

SpecOrdered == InitOrdered /\ [][NextOrdered]_vars

----------------------------------------------------------------------------
(* The byte encoding of the index record                                   *)

\* The index records encoded: those a buffer of capacity up to MaxCap holds.
IndexRecords ==
    {ind \in [start : 0..(MaxCap - 1), len : 0..MaxCap, capacity : 1..MaxCap] :
        ind.start < ind.capacity /\ ind.len <= ind.capacity}

\* The records encoded: those, and records whose fields take more than one
\* byte (the capacity of 4000 is the one of indices_should_be_storable).
EncodedRecords ==
    IndexRecords \cup {IndicesNew(4000), [start |-> 258, len |-> 513, capacity |-> 4000]}

\* The bytes appended to the slot by a corruption.
StrayBytes == {0, 255}

InitBytes ==
    /\ IdleButBytes
    /\ wsrc \in EncodedRecords
    /\ wire = to_bytes(wsrc)
    /\ wres = [done |-> FALSE, panic |-> FALSE, value |-> None]

\* to_bytes of another record replaces the bytes.
ToBytes ==
    \E ind \in EncodedRecords :
        /\ wsrc' = ind
        /\ wire' = to_bytes(ind)
        /\ wres' = [done |-> FALSE, panic |-> FALSE, value |-> None]
        /\ UNCHANGED exceptBytes

\* A byte sequence of another length reaches from_bytes: the last byte is
\* lost, or a byte follows the 24 bytes of a record.
DropByte ==
    /\ Len(wire) > 0
    /\ wire' = SubSeq(wire, 1, Len(wire) - 1)
    /\ wres' = [done |-> FALSE, panic |-> FALSE, value |-> None]
    /\ UNCHANGED <<wsrc, exceptBytes>>

AppendByte ==
    \E b \in StrayBytes :
        /\ Len(wire) >= STABLE_RING_BUFFER_INDICES_SIZE
        /\ Len(wire) < MaxBytes
        /\ wire' = Append(wire, b)
        /\ wres' = [done |-> FALSE, panic |-> FALSE, value |-> None]
        /\ UNCHANGED <<wsrc, exceptBytes>>

FromBytes ==
    /\ LET r == from_bytes(wire)
       IN  wres' = [done |-> TRUE, panic |-> r.panic, value |-> r.value]
    /\ UNCHANGED <<wire, wsrc, exceptBytes>>

NextBytes ==
    \/ ToBytes
    \/ DropByte
    \/ AppendByte
    \/ FromBytes

SpecBytes == InitBytes /\ [][NextBytes]_vars

----------------------------------------------------------------------------
(* AuthService: state machine                                              *)

RECURSIVE SeqsUpTo(_, _)
SeqsUpTo(S, n) ==
    IF n = 0 THEN {<<>>}
    ELSE LET shorter == SeqsUpTo(S, n - 1)
         IN  shorter \cup {Append(q, x) : q \in shorter, x \in S}

\* The permission lists passed to the service (duplicates included).
PermLists == SeqsUpTo(Permissions, MaxPermList)

\* AuthService::new over an empty map.
InitAuth ==
    /\ IdleButAuth
    /\ AuthIdle

AuthApply(op, principal, permissions, storage, ret) ==
    /\ aprev' = [storage |-> astorage]
    /\ astorage' = storage
    /\ acall' = [op |-> op, principal |-> principal, permissions |-> permissions,
                 ret |-> ret]
    /\ UNCHANGED exceptAuth

AddPermissions ==
    \E principal \in Principals, permissions \in PermLists :
        LET r == add_permissions(astorage, principal, permissions)
        IN  /\ AuthApply("add_permissions", principal, permissions, r.storage, r.ret)
            /\ granted' = IF r.ret.ok
                          THEN [granted EXCEPT ![principal] =
                                   @ \cup {permissions[i] : i \in 1..Len(permissions)}]
                          ELSE granted

RemovePermissions ==
    \E principal \in Principals, permissions \in PermLists :
        LET r == remove_permissions(astorage, principal, permissions)
        IN  /\ AuthApply("remove_permissions", principal, permissions, r.storage, r.ret)
            /\ granted' = IF r.ret.ok
                          THEN [granted EXCEPT ![principal] =
                                   @ \ {permissions[i] : i \in 1..Len(permissions)}]
                          ELSE granted

AuthClear ==
    /\ AuthApply("clear", Anonymous, <<>>, auth_clear(astorage), AuthOk({}))
    /\ granted' = [p \in Principals |-> {}]

\* The calls that take &self.
AuthRead(op, principal, permissions, ret) ==
    /\ AuthApply(op, principal, permissions, astorage, ret)
    /\ UNCHANGED granted

HasAllPermissions ==
    \E principal \in Principals, permissions \in PermLists :
        AuthRead("has_all_permissions", principal, permissions,
                 has_all_permissions(astorage, principal, permissions))

HasAnyPermission ==
    \E principal \in Principals, permissions \in PermLists :
        AuthRead("has_any_permission", principal, permissions,
                 has_any_permission(astorage, principal, permissions))

CheckHasAllPermissions ==
    \E principal \in Principals, permissions \in PermLists :
        AuthRead("check_has_all_permissions", principal, permissions,
                 check_has_all_permissions(astorage, principal, permissions))

CheckHasAnyPermission ==
    \E principal \in Principals, permissions \in PermLists :
        AuthRead("check_has_any_permission", principal, permissions,
                 check_has_any_permission(astorage, principal, permissions))

CheckHasPermission ==
    \E principal \in Principals, permission \in Permissions :
        AuthRead("check_has_permission", principal, <<permission>>,
                 check_has_permission(astorage, principal, permission))

GetPermissions ==
    \E principal \in Principals :
        AuthRead("get_permissions", principal, <<>>,
                 get_permissions(astorage, principal))

NextAuth ==
    \/ AddPermissions
    \/ RemovePermissions
    \/ AuthClear
    \/ HasAllPermissions
    \/ HasAnyPermission
    \/ CheckHasAllPermissions
    \/ CheckHasAnyPermission
    \/ CheckHasPermission
    \/ GetPermissions

SpecAuth == InitAuth /\ [][NextAuth]_vars

----------------------------------------------------------------------------
(* MockCanisterClient: state machine                                       *)

\* The clients in use: the one built by default() and one clone of it.
ClientNames == <<"mock_client", "mock_client2">>

\* The types a response is encoded from and a call decodes to.
MockTypes == {"u64", "String"}

\* The n-th response registered: Ok of either type, or an error.
Response(n, ty) ==
    IF ty = "error" THEN [ok |-> FALSE, ty |-> "error", val |-> n]
    ELSE [ok |-> TRUE, ty |-> ty, val |-> n]

InitMock ==
    /\ IdleButMock
    /\ MockIdle

\* The first response expected for the kind and method, if any.
HeadOf(kind, method) ==
    IF expected[kind][method] = <<>> THEN None ELSE Some(Head(expected[kind][method]))

MockApply(op, kind, method, r) ==
    /\ mheap' = r.heap
    /\ mcall' = [op |-> op, kind |-> kind, method |-> method, panic |-> r.panic,
                 ret |-> r.ret, taken |-> r.taken, head |-> HeadOf(kind, method)]
    /\ UNCHANGED exceptMock

MockClone ==
    /\ Len(mclients) < Len(ClientNames)
    /\ LET r == mock_clone(mheap, mclients[1])
       IN  /\ mheap' = r.heap
           /\ mclients' = Append(mclients, r.client)
    /\ mcall' = [op |-> "clone", kind |-> "query", method |-> "method_a",
                 panic |-> FALSE, ret |-> None, taken |-> None, head |-> None]
    /\ UNCHANGED <<nextResp, expected, exceptMock>>

MockAdd(kind) ==
    \E c \in 1..Len(mclients), method \in MockMethods, ty \in MockTypes \cup {"error"} :
        /\ nextResp <= MaxResp
        /\ LET response == Response(nextResp, ty)
               r == IF kind = "query"
                    THEN add_query(mheap, mclients[c], method, response)
                    ELSE add_update(mheap, mclients[c], method, response)
           IN  /\ MockApply("add", kind, method, r)
               /\ expected' = IF r.panic THEN expected
                              ELSE [expected EXCEPT ![kind][method] = Append(@, response)]
        /\ nextResp' = nextResp + 1
        /\ UNCHANGED mclients

AddQuery == MockAdd("query")

AddUpdate == MockAdd("update")

MockCall(kind) ==
    \E c \in 1..Len(mclients), method \in MockMethods, R \in MockTypes :
        /\ LET r == IF kind = "query"
                    THEN mock_query(mheap, mclients[c], method, R)
                    ELSE mock_update(mheap, mclients[c], method, R)
           IN  /\ MockApply("call", kind, method, r)
               /\ expected' = IF r.taken = None THEN expected
                              ELSE [expected EXCEPT ![kind][method] = Tail(@)]
        /\ UNCHANGED <<mclients, nextResp>>

Query == MockCall("query")

Update == MockCall("update")

MockClear ==
    \E c \in 1..Len(mclients) :
        /\ LET r == mock_clear(mheap, mclients[c])
               q == mheap[mclients[c].queries]
               u == mheap[mclients[c].updates]
           IN  /\ MockApply("clear", "query", "method_a", r)
               /\ expected' =
                     [k \in MockKinds |->
                         IF \/ k = "query" /\ ~q.poisoned
                            \/ k = "update" /\ ~q.poisoned /\ ~u.poisoned
                         THEN [m \in MockMethods |-> <<>>]
                         ELSE expected[k]]
        /\ UNCHANGED <<mclients, nextResp>>

NextMock ==
    \/ MockClone
    \/ AddQuery
    \/ AddUpdate
    \/ Query
    \/ Update
    \/ MockClear

SpecMock == InitMock /\ [][NextMock]_vars

----------------------------------------------------------------------------
(* Lookups by offset, over the whole range of the offset type              *)

\* The offsets looked up: the small ones and the largest ones of the type.
LookupOffsets == (0..MaxN) \cup {U64_MAX - 1, U64_MAX}

\* Any index record a buffer of capacity up to MaxCap holds, in either build.
InitLookup ==
    /\ IdleButLookup
    /\ lind \in IndexRecords
    /\ lbuild \in BOOLEAN
    /\ lcall = [op |-> "new", n |-> 0, ret |-> None, panic |-> FALSE, overflow |-> FALSE]

LookupApply(op, n, r) ==
    /\ lcall' = [op |-> op, n |-> n, ret |-> r.ret, panic |-> r.panic,
                 overflow |-> r.overflow]
    /\ UNCHANGED <<lind, lbuild, exceptLookup>>

LookupNthElement ==
    \E n \in LookupOffsets :
        LookupApply("nth_element", n, indices_nth_element_u64(lind, n, lbuild))

LookupNthElementFromEnd ==
    \E n \in LookupOffsets :
        LookupApply("nth_element_from_end", n,
                    indices_nth_element_from_end_u64(lind, n, lbuild))

NextLookup ==
    \/ LookupNthElement
    \/ LookupNthElementFromEnd

SpecLookup == InitLookup /\ [][NextLookup]_vars

----------------------------------------------------------------------------
(* LoggerConfigService                                                     *)

LogFilters == {"warn", "info", "debug"}

\* The settings handed to init: only the filter and the console flag vary.
LogServiceSettingsSet ==
    [enable_console : {None, Some(TRUE)}, in_memory_records : {None},
     max_record_length : {None}, log_filter : {None} \cup {Some(f) : f \in LogFilters}]

\* What init_log and update_filters can answer.
LogOutcomes == {LogOk, LogErr("InvalidConfiguration"), LogErr("AlreadyInitialized")}

\* LoggerConfigService::new over a store that holds the default settings.
InitLog ==
    /\ IdleButLog
    /\ log_settings_store = LogSettingsDefault
    /\ logger_config = None
    /\ gcall = [op |-> "new", ret |-> LogOk, store |-> log_settings_store,
                config |-> logger_config]

LogApply(op, r) ==
    /\ log_settings_store' = r.store
    /\ logger_config' = r.logger_config
    /\ gcall' = [op |-> op, ret |-> r.ret, store |-> log_settings_store,
                 config |-> logger_config]
    /\ UNCHANGED exceptLog

\* The canister is upgraded: a new service over the same store.
LogNew == LogApply("new", LoggerConfigService_new(log_settings_store))

LogInit ==
    \E log_settings \in {None} \cup {Some(x) : x \in LogServiceSettingsSet},
       built \in LogOutcomes :
        LogApply("init", log_init(log_settings_store, logger_config, log_settings, built))

SetLoggerFilter ==
    \E filter \in LogFilters, updated \in LogOutcomes :
        LogApply("set_logger_filter",
                 set_logger_filter(log_settings_store, logger_config, filter, updated))

GetLoggerFilter ==
    LogApply("get_logger_filter",
             LogResult(log_settings_store, logger_config,
                       [ok |-> TRUE, err |-> get_logger_filter(log_settings_store)]))

NextLog ==
    \/ LogNew
    \/ LogInit
    \/ SetLoggerFilter
    \/ GetLoggerFilter

SpecLog == InitLog /\ [][NextLog]_vars

----------------------------------------------------------------------------
(* The clock of the IC API                                                 *)

InitTime ==
    /\ IdleButTime
    /\ now = 0
    /\ treads = [i \in TimeImpls |-> [nanos |-> None, secs |-> None]]

\* A quarter of a second passes; what was read belongs to the old instant.
Tick ==
    /\ now < MaxTicks * (E_9 \div 4)
    /\ now' = now + E_9 \div 4
    /\ treads' = [i \in TimeImpls |-> [nanos |-> None, secs |-> None]]
    /\ UNCHANGED exceptTime

\* The nanosecond getter: time_nanos of IcPlatform, time_ns of TokioIcApi.
TimeNanos ==
    \E i \in TimeImpls :
        /\ treads' = [treads EXCEPT ![i].nanos =
                         Some(IF i = "IcPlatform" THEN IcPlatform_time_nanos(now)
                              ELSE TokioIcApi_time_ns(now))]
        /\ UNCHANGED <<now, exceptTime>>

TimeSecs ==
    \E i \in TimeImpls :
        /\ treads' = [treads EXCEPT ![i].secs =
                         Some(IF i = "IcPlatform" THEN IcPlatform_time_secs(now)
                              ELSE TokioIcApi_time_secs(now))]
        /\ UNCHANGED <<now, exceptTime>>

NextTime ==
    \/ Tick
    \/ TimeNanos
    \/ TimeSecs

SpecTime == InitTime /\ [][NextTime]_vars

----------------------------------------------------------------------------
(* Properties                                                              *)

Reads == {"nth_element", "nth_element_from_end", "first", "last"}

\* The element held by physical slot (start + i) mod capacity.
SlotAt(ind, d, i) == d[((ind.start + i) % ind.capacity) + 1]

\* C1 - FIFO eviction: once C + k values (k >= 1) were pushed into an empty
\* buffer of capacity C, nth_element(0..C-1) are the last C pushed values in
\* push order, the first C pushes returned None and the following k pushes
\* returned the first k pushed values in order.
C1_FifoEviction ==
    (runValid /\ Len(run) > indices.capacity) =>
        LET C == indices.capacity
            n == Len(run)
        IN  /\ Logical(indices, data) = [i \in 1..C |-> Some(run[n - C + i].val)]
            /\ \A i \in 1..C : run[i].ret = None
            /\ \A j \in 1..(n - C) : run[C + j].ret = Some(run[j].val)

C1_Witness ==
    /\ runValid
    /\ indices.capacity = 3
    /\ Len(run) = 5
    /\ call.op = "push"

\* C2 - push(v): on a full buffer it overwrites physical slot start, returns
\* the previous logically-first element, advances start by one modulo the
\* capacity and keeps len; otherwise it returns None, increases len by one
\* and keeps start.  Either way v is the logically-last element afterwards.
C2_PushContract ==
    (call.op = "push") =>
        LET p == prev.indices
        IN  /\ ~call.panic
            /\ indices.capacity = p.capacity
            /\ IF p.len = p.capacity
               THEN /\ call.ret = Some(prev.data[p.start + 1])
                    /\ data = [prev.data EXCEPT ![p.start + 1] = call.arg]
                    /\ indices.start = (p.start + 1) % p.capacity
                    /\ indices.len = p.len
               ELSE /\ call.ret = None
                    /\ indices.len = p.len + 1
                    /\ indices.start = p.start
            /\ indices.len >= 1
            /\ SlotAt(indices, data, indices.len - 1) = call.arg
            /\ last(indices, data) = Some(call.arg)

C2_Witness ==
    /\ call.op = "push"
    /\ prev.indices.len = prev.indices.capacity
    /\ prev.indices.capacity = 2
    /\ prev.indices.start = 1
    /\ indices.start = 0
    /\ call.ret # None

\* C3 - state invariant: len <= capacity, capacity >= 1, start < capacity,
\* and every logical position i < len maps to a physical slot
\* (start + i) mod capacity that exists in the backing vector, so that
\* nth_element(i) is Some.
C3_StateInvariant ==
    /\ indices.len <= indices.capacity
    /\ indices.capacity >= 1
    /\ indices.start < indices.capacity
    /\ \A i \in 0..(indices.len - 1) :
        /\ (indices.start + i) % indices.capacity < vec_len(data)
        /\ nth_element(indices, data, i) # None

C3_Witness ==
    /\ indices.start + indices.len > indices.capacity
    /\ indices.len >= 2
    /\ indices.len < indices.capacity
    /\ call.op = "pop"

\* C4 - pop(): on a non-empty buffer it returns the logically-last element
\* (the most recently pushed one still in the buffer), decreases len by one
\* and leaves start, capacity and the whole backing vector unchanged; on an
\* empty buffer it returns None and changes nothing.
C4_PopContract ==
    (call.op = "pop") =>
        LET p == prev.indices
        IN  /\ ~call.panic
            /\ data = prev.data
            /\ IF p.len > 0
               THEN /\ call.ret = Some(SlotAt(p, prev.data, p.len - 1))
                    /\ \A i \in 0..(p.len - 1) :
                          SlotAt(p, prev.data, i) <= call.ret[1]
                    /\ indices = [p EXCEPT !.len = p.len - 1]
               ELSE /\ call.ret = None
                    /\ indices = p

C4_Witness ==
    /\ call.op = "pop"
    /\ call.ret # None
    /\ prev.indices.start # 0
    /\ prev.indices.len >= 2

\* C5 - truncate(n) on a buffer of length L sets len to max(L - n, 0), keeps
\* the first max(L - n, 0) logical elements in order and leaves start,
\* capacity and the backing vector unchanged, also for n > L.
C5_TruncateContract ==
    (call.op = "truncate") =>
        LET p == prev.indices
            k == IF p.len - call.arg > 0 THEN p.len - call.arg ELSE 0
        IN  /\ ~call.panic
            /\ indices = [p EXCEPT !.len = k]
            /\ data = prev.data
            /\ Logical(indices, data) = SubSeq(Logical(p, prev.data), 1, k)

C5_Witness ==
    /\ call.op = "truncate"
    /\ call.arg > prev.indices.len
    /\ prev.indices.len >= 2
    /\ prev.indices.start # 0

\* C6 - after a truncate, a push that refills a truncated slot returns None
\* although the slot still holds the stale value; a push returns Some only
\* when len had reached capacity, and then it returns the logically-first
\* element, never a value that truncate removed.
C6_PushAfterTruncate ==
    (call.op = "push") =>
        /\ (call.ret # None) <=> (prev.indices.len = prev.indices.capacity)
        /\ (call.ret # None) =>
              /\ call.ret = nth_element(prev.indices, prev.data, 0)
              /\ call.ret[1] \notin truncated

C6_Witness ==
    /\ call.op = "push"
    /\ call.ret = None
    /\ prev.indices.start # 0
    /\ LET slot == (prev.indices.start + prev.indices.len) % prev.indices.capacity
       IN  /\ slot < Len(prev.data)
           /\ prev.data[slot + 1] \in truncated

\* C7 - resize(new_capacity) with new_capacity # capacity: the logical
\* contents afterwards are the last min(len, new_capacity) logical elements
\* of the old buffer in the same order; growing loses nothing.
C7_ResizeContents ==
    (call.op = "resize" /\ call.arg # prev.indices.capacity) =>
        LET old == Logical(prev.indices, prev.data)
        IN  /\ ~call.panic
            /\ Logical(indices, data) = LastN(old, min(Len(old), call.arg))
            /\ (call.arg > prev.indices.capacity) => Logical(indices, data) = old

C7_Witness ==
    /\ call.op = "resize"
    /\ prev.indices.start # 0
    /\ prev.indices.len > call.arg
    /\ call.arg >= 2

\* C8 - resize(new_capacity) with new_capacity = capacity is a no-op: start,
\* len, capacity and every slot of the backing vector are unchanged.
C8_ResizeSameCapacity ==
    (call.op = "resize" /\ call.arg = prev.indices.capacity) =>
        /\ ~call.panic
        /\ indices = prev.indices
        /\ data = prev.data

C8_Witness ==
    /\ call.op = "resize"
    /\ call.arg = prev.indices.capacity
    /\ prev.indices.start # 0
    /\ prev.indices.len >= 1
    /\ prev.indices.len < prev.indices.capacity

\* C9 - clear() leaves start = 0, len = 0, the capacity unchanged and the
\* backing vector empty: nth_element(i) is None for every i and the state is
\* the one `new` produces for that capacity.
C9_ClearContract ==
    (call.op = "clear") =>
        /\ ~call.panic
        /\ indices.start = 0
        /\ indices.len = 0
        /\ indices.capacity = prev.indices.capacity
        /\ data = <<>>
        /\ \A i \in 0..MaxN : nth_element(indices, data, i) = None
        /\ indices = IndicesNew(prev.indices.capacity)

C9_Witness ==
    /\ call.op = "clear"
    /\ prev.indices.start # 0
    /\ prev.indices.len >= 1
    /\ Len(prev.data) = 3

\* C10 - lookups: for n < len, nth_element(n) is the element of physical
\* slot (start + n) mod capacity and nth_element_from_end(n) is the element
\* nth_element(len - 1 - n) returns; for n >= len both are None; first() is
\* nth_element(0), last() is nth_element_from_end(0); none changes state.
C10_Lookup ==
    (call.op \in Reads) =>
        LET n == call.arg
        IN  /\ indices = prev.indices
            /\ data = prev.data
            /\ (call.op = "nth_element") =>
                  call.ret = IF n < indices.len
                             THEN Some(SlotAt(indices, data, n)) ELSE None
            /\ (call.op = "nth_element_from_end") =>
                  call.ret = IF n < indices.len
                             THEN Some(SlotAt(indices, data, indices.len - 1 - n))
                             ELSE None
            /\ (call.op = "first") =>
                  call.ret = IF indices.len > 0
                             THEN Some(SlotAt(indices, data, 0)) ELSE None
            /\ (call.op = "last") =>
                  call.ret = IF indices.len > 0
                             THEN Some(SlotAt(indices, data, indices.len - 1))
                             ELSE None

C10_Witness ==
    /\ call.op = "nth_element_from_end"
    /\ call.arg >= 1
    /\ call.arg < indices.len
    /\ indices.start + indices.len > indices.capacity
    /\ call.ret # None

----------------------------------------------------------------------------
(* Properties of the cached map (specification SpecCached)                 *)

CachedKeys(c) == {c.items[i].key : i \in 1..Len(c.items)}

\* C11 - cache transparency: with the same insert, remove, clear (and pop)
\* calls applied to the CachedBTreeMap and to a plain map, every get(k)
\* returns what the plain map returns, also after LRU evictions.
C11_CacheTransparency ==
    /\ (ccall.op = "get") => ccall.ret = bt_get(plain, ccall.key)
    /\ \A k \in Keys : cached_get(cmap, k).ret = bt_get(plain, k)

C11_Witness ==
    /\ ccall.op = "get"
    /\ ccall.queried
    /\ ccall.ret # None
    /\ ccall.ret[1] < 10
    /\ Len(cprev.cmap.cache.items) = cmax
    /\ Len(cmap.cache.items) = cmax

\* C12 - get(k): a cache hit returns the cached value without querying the
\* backing map; a miss that the backing map holds returns the backing value
\* and leaves it cached; a miss the backing map does not hold returns None
\* and leaves the cache unchanged.  The backing map is never modified.
C12_GetContract ==
    (ccall.op = "get") =>
        LET pc == cprev.cmap.cache
            pi == cprev.cmap.inner
            k == ccall.key
        IN  /\ cmap.inner = pi
            /\ IF lru_contains_key(pc, k)
               THEN /\ ccall.ret = lru_peek(pc, k)
                    /\ ~ccall.queried
               ELSE IF k \in DOMAIN pi
               THEN /\ ccall.ret = Some(pi[k])
                    /\ ccall.queried
                    /\ lru_peek(cmap.cache, k) = Some(pi[k])
               ELSE /\ ccall.ret = None
                    /\ cmap.cache = pc

C12_Witness ==
    /\ ccall.op = "get"
    /\ ccall.queried
    /\ ccall.ret # None
    /\ ~lru_contains_key(cprev.cmap.cache, ccall.key)
    /\ lru_contains_key(cmap.cache, ccall.key)

\* C13 - insert(k, v) writes through: afterwards the cache and the backing
\* map both hold v for k, the value returned is the backing map's previous
\* value for k whatever the cache held, and get(k) returns Some(v).
C13_InsertWriteThrough ==
    (ccall.op = "insert") =>
        LET k == ccall.key
            v == ccall.val
        IN  /\ lru_peek(cmap.cache, k) = Some(v)
            /\ bt_get(cmap.inner, k) = Some(v)
            /\ ccall.ret = bt_get(cprev.cmap.inner, k)
            /\ cached_get(cmap, k).ret = Some(v)

C13_Witness ==
    /\ ccall.op = "insert"
    /\ ccall.ret # None
    /\ ~lru_contains_key(cprev.cmap.cache, ccall.key)
    /\ Len(cprev.cmap.cache.items) = cmax

\* C14 - remove(k): afterwards k is absent from the cache and the backing
\* map, the value returned is the backing map's previous value, a second
\* remove(k) returns None, and get(k) / contains_key(k) report absence for
\* as long as k is not in the map.
C14_RemoveContract ==
    /\ (ccall.op = "remove") =>
          LET k == ccall.key
          IN  /\ ~lru_contains_key(cmap.cache, k)
              /\ ~bt_contains_key(cmap.inner, k)
              /\ ccall.ret = bt_get(cprev.cmap.inner, k)
              /\ cached_remove(cmap, k).ret = None
    /\ \A k \in Keys :
          ~bt_contains_key(cmap.inner, k) =>
              /\ cached_get(cmap, k).ret = None
              /\ ~cached_contains_key(cmap, k)

C14_Witness ==
    /\ ccall.op = "remove"
    /\ ccall.ret # None
    /\ lru_contains_key(cprev.cmap.cache, ccall.key)

\* C15 - pop_first / pop_last remove and return the backing map's minimum /
\* maximum entry and evict exactly that key from the cache: a get of the
\* popped key returns None and len decreased by one; on an empty map they
\* return None and leave the cache unchanged.
C15_PopContract ==
    (ccall.op \in {"pop_first", "pop_last"}) =>
        LET pi == cprev.cmap.inner
            pc == cprev.cmap.cache
        IN  IF DOMAIN pi = {}
            THEN /\ ccall.ret = None
                 /\ cmap.cache = pc
                 /\ cmap.inner = pi
            ELSE LET k == IF ccall.op = "pop_first"
                          THEN CHOOSE x \in DOMAIN pi : \A y \in DOMAIN pi : x <= y
                          ELSE CHOOSE x \in DOMAIN pi : \A y \in DOMAIN pi : x >= y
                 IN  /\ ccall.ret = Some(<<k, pi[k]>>)
                     /\ DOMAIN cmap.inner = (DOMAIN pi) \ {k}
                     /\ \A x \in DOMAIN cmap.inner : cmap.inner[x] = pi[x]
                     /\ cmap.cache.items = SelectSeq(pc.items, LAMBDA e : e.key # k)
                     /\ cached_get(cmap, k).ret = None
                     /\ cached_len(cmap) = Cardinality(DOMAIN pi) - 1

C15_Witness ==
    /\ ccall.op = "pop_first"
    /\ ccall.ret # None
    /\ lru_contains_key(cprev.cmap.cache, ccall.ret[1][1])
    /\ Len(cprev.cmap.cache.items) = 2
    /\ Len(cmap.cache.items) = 1

\* C16 - LRU capacity bound: the cache never holds more than max_cache_items
\* entries, and a new key entering a full cache evicts exactly one entry.
C16_CacheCapacity ==
    /\ Len(cmap.cache.items) <= cmax
    /\ Cardinality(CachedKeys(cmap.cache)) = Len(cmap.cache.items)
    /\ LET before == CachedKeys(cprev.cmap.cache)
           after == CachedKeys(cmap.cache)
       IN  (/\ ccall.op \in {"insert", "get"}
            /\ Cardinality(before) = cmax
            /\ after \ before # {})
           => /\ Cardinality(after) = cmax
              /\ Cardinality(before \ after) = 1
              /\ after \ before = {ccall.key}

C16_Witness ==
    /\ ccall.op = "insert"
    /\ cmax = 2
    /\ Len(cprev.cmap.cache.items) = 2
    /\ ~lru_contains_key(cprev.cmap.cache, ccall.key)
    /\ Len(cmap.cache.items) = 2

----------------------------------------------------------------------------
(* Properties of the codecs and the versioned structures                   *)
(* (specification SpecVersioned)                                           *)

VReads == {"get", "contains_key", "first_key_value", "last_key_value", "len",
           "iter", "cell_get"}

\* The canonical value a stored variant stands for: its name, and its age
\* when it has one.
CanonicalOf(stored) ==
    [name |-> stored.user.name,
     age |-> IF stored.tag = "V2" THEN stored.user.age ELSE None]

\* C17 - codec round trip: decode(encode(x)) = x for every canonical value x,
\* for the identity DefaultCodec and for the user codec, whose encode always
\* yields the V2 variant.
C17_CodecRoundTrip ==
    /\ (vcall.op = "roundtrip_user") =>
          /\ vcall.ret = Some(vcall.val)
          /\ vcall.enc.tag = "V2"
          /\ vcall.enc.user = vcall.val
    /\ (vcall.op = "roundtrip_default") =>
          /\ vcall.ret = Some(vcall.val)
          /\ vcall.enc = vcall.val

C17_Witness ==
    /\ vcall.op = "roundtrip_user"
    /\ vcall.val.age # None
    /\ vcall.ret = Some(vcall.val)

\* C18 - lazy migration: get, contains_key, first_key_value, last_key_value,
\* len and iteration on the versioned map, and get on the versioned cell,
\* leave every stored record as it is; a record stored as the legacy variant
\* stops being one only through an insert for its key (a set, for the cell).
C18_LazyMigration ==
    /\ (vcall.op \in VReads) => (vinner = vprev.inner /\ vcell = vprev.cell)
    /\ \A k \in (DOMAIN vprev.inner) \cap (DOMAIN vinner) :
          (vprev.inner[k].tag = "V1" /\ vinner[k].tag # "V1") =>
              (vcall.op = "insert" /\ vcall.key = k)
    /\ (vprev.cell.tag = "V1" /\ vcell.tag # "V1") => vcall.op = "cell_set"

C18_Witness ==
    /\ vcall.op = "get"
    /\ vcall.ret # None
    /\ vcall.key \in DOMAIN vinner
    /\ vinner[vcall.key].tag = "V1"

\* C19 - insert(k, x) stores encode(x), the newest variant, under k also when
\* the record stored before was a legacy one, and returns the decoded
\* previous value if any; remove, pop_first and pop_last return the decoded
\* canonical value of the record they removed, whatever its variant.
C19_VersionedWrites ==
    LET pi == vprev.inner
    IN  /\ (vcall.op = "insert") =>
              /\ vcall.key \in DOMAIN vinner
              /\ vinner[vcall.key] = V2(vcall.val)
              /\ vcall.ret = IF vcall.key \in DOMAIN pi
                             THEN Some(CanonicalOf(pi[vcall.key])) ELSE None
              /\ \A k \in DOMAIN pi : k # vcall.key => vinner[k] = pi[k]
        /\ (vcall.op = "remove") =>
              /\ vcall.key \notin DOMAIN vinner
              /\ vcall.ret = IF vcall.key \in DOMAIN pi
                             THEN Some(CanonicalOf(pi[vcall.key])) ELSE None
        /\ (vcall.op \in {"pop_first", "pop_last"}) =>
              IF DOMAIN pi = {} THEN vcall.ret = None /\ vinner = pi
              ELSE LET k == IF vcall.op = "pop_first"
                            THEN CHOOSE x \in DOMAIN pi : \A y \in DOMAIN pi : x <= y
                            ELSE CHOOSE x \in DOMAIN pi : \A y \in DOMAIN pi : x >= y
                   IN  /\ vcall.ret = Some(<<k, CanonicalOf(pi[k])>>)
                       /\ DOMAIN vinner = (DOMAIN pi) \ {k}

C19_Witness ==
    /\ vcall.op = "insert"
    /\ vcall.key \in DOMAIN vprev.inner
    /\ vprev.inner[vcall.key].tag = "V1"
    /\ vinner[vcall.key].tag = "V2"
    /\ vcall.val.age # None
    /\ vcall.ret # None

\* C20 - decoding is total over the stored variants and fills defaults: a
\* V1(name) record decodes to {name, age: None}, a V2 record to itself, so a
\* get on a map mixing V1 and V2 records returns canonical values that keep
\* the stored name.
C20_DecodeTotal ==
    /\ \A stored \in VersionedUserSet :
          /\ UserCodec_decode(stored) \in UserV2Set
          /\ UserCodec_decode(stored).name = stored.user.name
          /\ (stored.tag = "V1") => UserCodec_decode(stored).age = None
          /\ (stored.tag = "V2") => UserCodec_decode(stored) = stored.user
    /\ (vcall.op = "get" /\ vcall.key \in DOMAIN vinner) =>
          /\ vcall.ret # None
          /\ vcall.ret[1] \in UserV2Set
          /\ vcall.ret[1].name = vinner[vcall.key].user.name
          /\ (vinner[vcall.key].tag = "V1") => vcall.ret[1].age = None
          /\ (vinner[vcall.key].tag = "V2") => vcall.ret[1] = vinner[vcall.key].user

C20_Witness ==
    /\ vcall.op = "get"
    /\ vcall.key \in DOMAIN vinner
    /\ vinner[vcall.key].tag = "V1"
    /\ \E k \in DOMAIN vinner : vinner[k].tag = "V2" /\ vinner[k].user.age # None
    /\ vcall.ret = Some([name |-> vinner[vcall.key].user.name, age |-> None])

\* C21: init over a memory that holds an instance reopens it with all its
\* contents (the cell returns the stored value, not the supplied default);
\* new over that memory yields an empty structure (the cell holds the
\* supplied default). For VersionedBTreeMap, VecExt and VersionedStableCell.
C21_ConstructionContract ==
    /\ (kcall.op = "map_init" /\ kcall.before # None) =>
          /\ mem.map = kcall.before
          /\ \A key \in VKeys :
                versioned_get(mem.map[1], key).ret = MapDecode(bt_get(kcall.before[1], key))
    /\ kcall.op = "map_new" =>
          /\ mem.map # None
          /\ versioned_is_empty(mem.map[1]).ret
          /\ versioned_len(mem.map[1]).ret = 0
          /\ \A key \in VKeys : versioned_get(mem.map[1], key).ret = None
    /\ (kcall.op = "vec_init" /\ kcall.before # None) =>
          /\ mem.vec # None
          /\ vec_len(mem.vec[1]) = Len(kcall.before[1])
          /\ \A i \in 0..MaxVecLen :
                vec_get(mem.vec[1], i) = vec_get(kcall.before[1], i)
    /\ kcall.op = "vec_new" =>
          /\ mem.vec # None
          /\ vec_is_empty(mem.vec[1])
          /\ vec_get(mem.vec[1], 0) = None
    /\ (kcall.op = "cell_init" /\ kcall.before # None) =>
          /\ mem.cell = kcall.before
          /\ versioned_cell_get(mem.cell[1]).ret = UserCodec_decode(kcall.before[1])
    /\ kcall.op = "cell_new" =>
          /\ mem.cell # None
          /\ versioned_cell_get(mem.cell[1]).ret = kcall.default

\* new over a cell memory whose stored value differs from the default.
C21_Witness ==
    /\ kcall.op = "cell_new"
    /\ kcall.before # None
    /\ UserCodec_decode(kcall.before[1]) # kcall.default

\* get, len and is_empty of each of the three maps in the current state.
OGetAll(key) ==
    [plain |-> bt_get(omaps.plain, key),
     cached |-> cached_get(omaps.cached, key).ret,
     versioned |-> versioned_get(omaps.versioned, key).ret]

OLenAll ==
    [plain |-> bt_len(omaps.plain),
     cached |-> cached_len(omaps.cached),
     versioned |-> versioned_len(omaps.versioned).ret]

OIsEmptyAll ==
    [plain |-> bt_is_empty(omaps.plain),
     cached |-> cached_is_empty(omaps.cached),
     versioned |-> versioned_is_empty(omaps.versioned).ret]

Impls == {"plain", "cached", "versioned"}

\* C22: in the plain, the cached and the versioned map, get(k) is Some(v)
\* for the latest insert(k, v) not followed by remove(k) or clear and None
\* otherwise; insert returns the value held before; len is the number of
\* keys present and is_empty holds exactly when len is 0.
C22_OrderedMapSemantics ==
    \A i \in Impls :
        /\ \A key \in OKeys : OGetAll(key)[i] = latest[key]
        /\ OLenAll[i] = Cardinality(Present(latest))
        /\ OIsEmptyAll[i] <=> (OLenAll[i] = 0)
        /\ ocall.op = "insert" => ocall.ret[i] = oprev.latest[ocall.key]
        /\ ocall.op = "get" => ocall.ret[i] = latest[ocall.key]
        /\ ocall.op = "len" => ocall.ret[i] = Cardinality(Present(latest))
        /\ ocall.op = "is_empty" => (ocall.ret[i] <=> Present(latest) = {})

\* An insert that replaces the value of a key while two keys are present
\* and a third is absent.
C22_Witness ==
    /\ ocall.op = "insert"
    /\ oprev.latest[ocall.key] # None
    /\ oprev.latest[ocall.key] # Some(ocall.val)
    /\ \E k \in OKeys : latest[k] = None
    /\ Cardinality(Present(latest)) >= 2

\* C23: pop_first / pop_last remove and return the entry with the minimum /
\* maximum key: that key is absent afterwards, len is one less and the other
\* entries are unchanged; on an empty map they return None. first_key_value
\* / last_key_value return the same entry and remove nothing.
C23_PopMinMax ==
    LET before == Present(oprev.latest)
        isFirst == ocall.op \in {"pop_first", "first_key_value"}
        edge == CHOOSE k \in before :
                    \A j \in before : IF isFirst THEN k <= j ELSE k >= j
    IN  ocall.op \in {"pop_first", "pop_last", "first_key_value", "last_key_value"} =>
        \A i \in Impls :
            IF before = {}
            THEN /\ ocall.ret[i] = None
                 /\ OLenAll[i] = 0
            ELSE /\ ocall.ret[i] = Some(<<edge, oprev.latest[edge][1]>>)
                 /\ IF ocall.op \in {"pop_first", "pop_last"}
                    THEN /\ OGetAll(edge)[i] = None
                         /\ OLenAll[i] = Cardinality(before) - 1
                         /\ \A j \in OKeys \ {edge} : OGetAll(j)[i] = oprev.latest[j]
                    ELSE /\ OLenAll[i] = Cardinality(before)
                         /\ \A j \in OKeys : OGetAll(j)[i] = oprev.latest[j]

\* pop_last on a map of at least two entries.
C23_Witness ==
    /\ ocall.op = "pop_last"
    /\ Cardinality(Present(oprev.latest)) >= 2
    /\ ocall.ret.versioned # None
    /\ ocall.ret.versioned[1][1] \notin Present(latest)

\* C24: iter_from_prev_key(bound) yields in ascending key order exactly the
\* entries whose key is >= p, the largest key strictly less than bound, and
\* nothing when no key is strictly less than bound: keys {1,2,3} give [2,3]
\* for bound 3 and [] for bound 1.
C24_IterFromPrevKey ==
    ocall.op = "iter_from_prev_key" =>
    LET bound == ocall.key
        below == {k \in Present(latest) : k < bound}
        p == CHOOSE k \in below : \A j \in below : k >= j
    IN  \A i \in Impls :
            LET r == ocall.ret[i]
            IN  /\ below = {} => r = <<>>
                /\ below # {} =>
                      /\ {r[n][1] : n \in 1..Len(r)} = {k \in Present(latest) : k >= p}
                      /\ \A n \in 1..Len(r) : r[n][2] = latest[r[n][1]][1]
                      /\ \A n, m \in 1..Len(r) : n < m => r[n][1] < r[m][1]
                /\ (Present(latest) = {1, 2, 3} /\ bound = 3) =>
                      <<r[1][1], r[2][1]>> = <<2, 3>> /\ Len(r) = 2
                /\ (Present(latest) = {1, 2, 3} /\ bound = 1) => r = <<>>

\* Keys {1,2,3} and bound 3: the entries at 2 and 3 are yielded.
C24_Witness ==
    /\ ocall.op = "iter_from_prev_key"
    /\ Present(latest) = {1, 2, 3}
    /\ ocall.key = 3
    /\ Len(ocall.ret.versioned) = 2

\* C25: from_bytes of a byte sequence whose length is not exactly 24 panics,
\* for shorter and for longer sequences alike; it never yields a record built
\* from a prefix of the input.
C25_WrongLengthPanics ==
    (wres.done /\ Len(wire) # STABLE_RING_BUFFER_INDICES_SIZE) => wres.panic

\* C26: add_permissions and remove_permissions with the anonymous principal
\* return AnonimousUserNotAllowed and leave the stored permissions of every
\* principal unchanged.
C26_AnonymousRejected ==
    (acall.op \in {"add_permissions", "remove_permissions"}
        /\ acall.principal = Anonymous) =>
        /\ acall.ret = AuthErr("AnonimousUserNotAllowed")
        /\ astorage = aprev.storage
        /\ \A p \in Principals :
              get_permissions(astorage, p) = get_permissions(aprev.storage, p)
        /\ Anonymous \notin DOMAIN astorage

\* add_permissions of a non-empty list for the anonymous principal while
\* another principal holds permissions.
C26_Witness ==
    /\ acall.op = "add_permissions"
    /\ acall.principal = Anonymous
    /\ acall.permissions # <<>>
    /\ ~acall.ret.ok
    /\ astorage # EmptyMap

\* C27: has_all_permissions(p, S) holds exactly when every permission of S is
\* granted to p; has_any_permission(p, S) exactly when S is empty or one of
\* its permissions is granted to p; both hold for the empty list for every
\* principal, with or without an entry; check_has_* return NotAuthorized
\* exactly when has_* is false.
C27_PermissionChecks ==
    /\ \A p \in Principals, S \in PermLists :
        LET all_ == has_all_permissions(astorage, p, S)
            any_ == has_any_permission(astorage, p, S)
        IN  /\ all_ <=> (\A i \in 1..Len(S) : S[i] \in granted[p])
            /\ any_ <=> (S = <<>> \/ \E i \in 1..Len(S) : S[i] \in granted[p])
            /\ S = <<>> => (all_ /\ any_)
            /\ check_has_all_permissions(astorage, p, S) =
                  IF all_ THEN AuthOk({}) ELSE AuthErr("NotAuthorized")
            /\ check_has_any_permission(astorage, p, S) =
                  IF any_ THEN AuthOk({}) ELSE AuthErr("NotAuthorized")
    /\ acall.op = "has_all_permissions" =>
          (acall.ret <=> \A i \in 1..Len(acall.permissions) :
                             acall.permissions[i] \in granted[acall.principal])
    /\ acall.op = "has_any_permission" =>
          (acall.ret <=> (acall.permissions = <<>>
                          \/ \E i \in 1..Len(acall.permissions) :
                                acall.permissions[i] \in granted[acall.principal]))
    /\ acall.op = "check_has_all_permissions" =>
          (acall.ret = AuthErr("NotAuthorized")
              <=> ~has_all_permissions(astorage, acall.principal, acall.permissions))
    /\ acall.op = "check_has_any_permission" =>
          (acall.ret = AuthErr("NotAuthorized")
              <=> ~has_any_permission(astorage, acall.principal, acall.permissions))

\* has_any_permission with the empty list for a principal that has an entry,
\* after a permission of it was removed.
C27_Witness ==
    /\ acall.op = "has_any_permission"
    /\ acall.permissions = <<>>
    /\ acall.principal \in DOMAIN astorage
    /\ granted[acall.principal] # Permissions
    /\ acall.ret = TRUE

\* The queue a client sees for a kind and a method.
QueueOf(client, kind, method) ==
    LET cell == mheap[IF kind = "query" THEN client.queries ELSE client.updates]
    IN  IF method \in DOMAIN cell.map THEN cell.map[method] ELSE <<>>

\* C28: the responses registered for a method are returned in registration
\* order, each consumed by exactly one call; query and update responses are
\* queued separately per method name; clones of the client share the queues;
\* a call for a method whose queue is empty panics.
C28_MockQueues ==
    /\ \A c \in 1..Len(mclients), kind \in MockKinds, method \in MockMethods :
          QueueOf(mclients[c], kind, method) = expected[kind][method]
    /\ mcall.op = "call" =>
          /\ mcall.head = None => (mcall.panic /\ mcall.taken = None)
          /\ mcall.taken # None => mcall.taken = mcall.head
          /\ ~mcall.panic =>
                /\ mcall.head # None
                /\ mcall.taken = mcall.head
                /\ mcall.ret = Some([ok |-> mcall.head[1].ok, val |-> mcall.head[1].val])

\* With a clone in use, a call returns the second response registered,
\* after the first one was consumed; no call has panicked.
C28_Witness ==
    /\ mcall.op = "call"
    /\ ~mcall.panic
    /\ Len(mclients) = 2
    /\ mcall.taken # None
    /\ mcall.taken[1].val = 2
    /\ nextResp = 3
    /\ \A kind \in MockKinds, method \in MockMethods : expected[kind][method] = <<>>
    /\ \A i \in 1..Len(mheap) : ~mheap[i].poisoned

\* C29: after resize to a different capacity the index record is start = 0,
\* len = min(old len, new_capacity), capacity = new_capacity and the vector
\* holds exactly the len elements in logical order; so a push after resizing
\* a wrapped buffer appends behind the preserved elements: wrapped [2,3,4]
\* at capacity 3, resize to 4, push 5 gives [2,3,4,5].
C29_ResizeResetsLayout ==
    (call.op = "resize" /\ call.arg # prev.indices.capacity) =>
        LET before == Logical(prev.indices, prev.data)
            kept == min(prev.indices.len, call.arg)
            pushed == push(indices, data, nextVal)
        IN  /\ indices = [start |-> 0, len |-> kept, capacity |-> call.arg]
            /\ vec_len(data) = kept
            /\ \A i \in 1..kept : Some(data[i]) = before[Len(before) - kept + i]
            /\ indices.len < indices.capacity =>
                  /\ ~pushed.panic
                  /\ pushed.ret = None
                  /\ Logical(pushed.indices, pushed.data) =
                        Append(Logical(indices, data), Some(nextVal))
            /\ LET p1 == push(IndicesNew(3), <<>>, 1)
                   p2 == push(p1.indices, p1.data, 2)
                   p3 == push(p2.indices, p2.data, 3)
                   p4 == push(p3.indices, p3.data, 4)
                   resized == resize(p4.indices, p4.data, 4)
                   p5 == push(resized.indices, resized.data, 5)
               IN  /\ p4.indices = [start |-> 1, len |-> 3, capacity |-> 3]
                   /\ Logical(p4.indices, p4.data) = <<Some(2), Some(3), Some(4)>>
                   /\ Logical(p5.indices, p5.data) =
                          <<Some(2), Some(3), Some(4), Some(5)>>

\* A full, wrapped buffer was resized to a larger capacity, so the next push
\* has room behind the preserved elements.
C29_Witness ==
    /\ call.op = "resize"
    /\ ~call.panic
    /\ prev.indices.start # 0
    /\ prev.indices.len = prev.indices.capacity
    /\ call.arg > prev.indices.capacity
    /\ nextVal <= MaxPush

\* C30: no ring-buffer operation aborts in a reachable state: the vector is
\* never longer than capacity, push calls data.set only below the vector
\* length and otherwise appends at exactly the vector length, the slot read
\* on eviction exists, and resize finds every element it copies.
C30_NoAbort ==
    LET new_index == offset_to_index(indices, indices.len)
    IN  /\ ~call.panic
        /\ vec_len(data) <= indices.capacity
        /\ new_index <= vec_len(data)
        /\ indices.len = indices.capacity => vec_get(data, new_index) # None
        /\ ~push(indices, data, nextVal).panic
        /\ ~pop(indices, data).panic
        /\ ~clear(indices, data).panic
        /\ \A n \in 0..MaxN : ~truncate(indices, data, n).panic
        /\ \A new_capacity \in 1..MaxN :
              /\ ~resize(indices, data, new_capacity).panic
              /\ LET elements_to_copy == min(indices.len, new_capacity)
                 IN  \A k \in 1..elements_to_copy :
                        resize_elements(indices, data, elements_to_copy)[k] # None

\* A push into a wrapped buffer that is not full: data.set below the vector
\* length, nothing evicted.
C30_Witness ==
    /\ call.op = "push"
    /\ ~call.panic
    /\ prev.indices.start # 0
    /\ prev.indices.len < prev.indices.capacity
    /\ offset_to_index(prev.indices, prev.indices.len) < vec_len(prev.data)
    /\ call.ret = None

\* C31: nth_element(n) and nth_element_from_end(n) return None for every n
\* of the offset type that is >= len, the largest one included, and no
\* addition of the index arithmetic overflows or aborts.
C31_LargeOffsetsReturnNone ==
    (lcall.op \in {"nth_element", "nth_element_from_end"} /\ lcall.n >= lind.len) =>
        /\ ~lcall.panic
        /\ ~lcall.overflow
        /\ lcall.ret = None

\* C39: init on an initialized service returns AlreadyInitialized and leaves
\* the stored settings alone; set_logger_filter on a service that was never
\* initialized returns NotInitialized and get_logger_filter still returns
\* the filter stored before the call.
C39_ErrorsLeaveStateUnchanged ==
    /\ (gcall.op = "init" /\ gcall.config # None) =>
          /\ gcall.ret = LogErr("AlreadyInitialized")
          /\ log_settings_store = gcall.store
    /\ (gcall.op = "set_logger_filter" /\ gcall.config = None) =>
          /\ gcall.ret = LogErr("NotInitialized")
          /\ get_logger_filter(log_settings_store) = get_logger_filter(gcall.store)

\* C40: for IcPlatform and for TokioIcApi, the nanosecond getter returns the
\* nanoseconds since the epoch and time_secs the whole seconds, so time_secs
\* is the nanoseconds divided by 1_000_000_000 for the same instant.
C40_TimeUnits ==
    \A i \in TimeImpls :
        /\ treads[i].nanos # None => treads[i].nanos = Some(now)
        /\ treads[i].secs # None => treads[i].secs = Some(now \div E_9)
        /\ (treads[i].nanos # None /\ treads[i].secs # None) =>
              treads[i].secs[1] = treads[i].nanos[1] \div E_9

\* C32: for every index record x, from_bytes(to_bytes(x)) = x, to_bytes(x)
\* is exactly 24 bytes, and the fields are consecutive 8-byte little-endian
\* integers in the order start, len, capacity.
C32_BytesRoundTrip ==
    LET b == to_bytes(wsrc)
    IN  /\ Len(b) = 24
        /\ \A i \in 1..Len(b) : b[i] \in 0..255
        /\ from_le_bytes(SubSeq(b, 1, 8)) = wsrc.start
        /\ from_le_bytes(SubSeq(b, 9, 16)) = wsrc.len
        /\ from_le_bytes(SubSeq(b, 17, 24)) = wsrc.capacity
        /\ b[1] = wsrc.start % 256 /\ b[9] = wsrc.len % 256 /\ b[17] = wsrc.capacity % 256
        /\ (wres.done /\ wire = b) => (~wres.panic /\ wres.value = Some(wsrc))

\* The bytes of a record whose fields take two bytes each were decoded.
C32_Witness ==
    /\ wres.done
    /\ wire = to_bytes(wsrc)
    /\ wsrc = [start |-> 258, len |-> 513, capacity |-> 4000]
    /\ wres.value = Some(wsrc)

\* C33: CachedBTreeMap::first_key_value and last_key_value return the
\* backing map's minimum / maximum entry and are pure peeks: the cache gains
\* and loses no entry and the backing map is unchanged.
C33_PeeksArePure ==
    (ccall.op \in {"first_key_value", "last_key_value"}) =>
        LET inner == cprev.cmap.inner
        IN  /\ cmap = cprev.cmap
            /\ plain = cprev.plain
            /\ (ccall.ret = None) <=> (DOMAIN inner = {})
            /\ ccall.ret # None =>
                  /\ ccall.ret[1][1] \in DOMAIN inner
                  /\ ccall.ret[1][2] = inner[ccall.ret[1][1]]
                  /\ \A k \in DOMAIN inner :
                        IF ccall.op = "first_key_value" THEN ccall.ret[1][1] <= k
                        ELSE ccall.ret[1][1] >= k

\* A peek at an entry that is not cached, while the cache is full.
C33_Witness ==
    /\ ccall.op = "first_key_value"
    /\ ccall.ret # None
    /\ ~lru_contains_key(cmap.cache, ccall.ret[1][1])
    /\ Len(cmap.cache.items) = cmax
    /\ cmax = 2

\* The position of a key in the sequence of touched keys.
TouchedAt(keys, key) == CHOOSE i \in 1..Len(keys) : keys[i] = key

\* C34: get_or_insert_with returns the cached value without calling compute
\* when the key is cached and marks it most recently used; when it is not
\* cached it calls compute and caches the result only if it is Some.  When
\* an insertion into a full cache evicts, the victim is the entry whose last
\* access (insert or hit) is the oldest, so an entry that was just read is
\* not the next one evicted.
C34_LruRecency ==
    LET pc == cprev.cmap.cache
        before == CachedKeys(pc)
        after == CachedKeys(cmap.cache)
        evicted == before \ after
    IN  /\ \A k \in after : \E i \in 1..Len(touched) : touched[i] = k
        /\ (ccall.op = "get" /\ ccall.key \in before) =>
              /\ ~ccall.queried
              /\ ccall.ret = lru_peek(pc, ccall.key)
              /\ after = before
              /\ touched[Len(touched)] = ccall.key
        /\ (ccall.op = "get" /\ ccall.key \notin before) =>
              /\ ccall.queried
              /\ ccall.ret = bt_get(cprev.cmap.inner, ccall.key)
              /\ ccall.ret = None => cmap.cache = pc
              /\ ccall.ret # None => lru_peek(cmap.cache, ccall.key) = ccall.ret
        /\ (ccall.op \in {"get", "insert"} /\ evicted # {}) =>
              /\ Len(pc.items) = cmax
              /\ ccall.key \notin before
              /\ \E victim \in evicted :
                    /\ evicted = {victim}
                    /\ \A k \in before :
                          TouchedAt(cprev.touched, victim) <= TouchedAt(cprev.touched, k)
                    /\ Cardinality(before) >= 2 =>
                          victim # cprev.touched[Len(cprev.touched)]

\* A get that missed evicted an entry that was inserted after an entry that
\* stays: the one that stays was read in between.
C34_Witness ==
    /\ ccall.op = "get"
    /\ ccall.queried
    /\ \E victim \in CachedKeys(cprev.cmap.cache) \ CachedKeys(cmap.cache),
          kept \in CachedKeys(cprev.cmap.cache) \cap CachedKeys(cmap.cache) :
            /\ lru_peek(cprev.cmap.cache, victim)[1] < 10
            /\ lru_peek(cprev.cmap.cache, kept)[1] < lru_peek(cprev.cmap.cache, victim)[1]

\* C35: after any sequence of CachedBTreeMap calls every entry (k, v) held in
\* the cache satisfies backing.get(k) = Some(v); hence contains_key(k)
\* equals backing.contains_key(k) and is_empty() equals backing.is_empty().
C35_CacheCoherence ==
    /\ \A i \in 1..Len(cmap.cache.items) :
          bt_get(cmap.inner, cmap.cache.items[i].key) = Some(cmap.cache.items[i].value)
    /\ \A k \in Keys : cached_contains_key(cmap, k) = bt_contains_key(cmap.inner, k)
    /\ cached_is_empty(cmap) = bt_is_empty(cmap.inner)
    /\ ccall.op = "contains_key" =>
          ccall.ret = Some(bt_contains_key(cmap.inner, ccall.key))
    /\ ccall.op = "is_empty" => ccall.ret = Some(bt_is_empty(cmap.inner))

\* contains_key found a key in the backing map that a full cache does not hold.
C35_Witness ==
    /\ ccall.op = "contains_key"
    /\ ccall.ret = Some(TRUE)
    /\ ~lru_contains_key(cmap.cache, ccall.key)
    /\ Len(cmap.cache.items) = cmax
    /\ \E i \in 1..Len(cmap.cache.items) : cmap.cache.items[i].value < 10

\* C36: for every stored variant s, decode_ref(&s) yields the value decode(s)
\* yields; it is borrowed exactly when s already is the current variant and
\* owned when s is a legacy variant, so a VersionedStableCell and a
\* VersionedBTreeMap over the same stored record return the same canonical
\* value.
C36_DecodeRefAgrees ==
    /\ \A s \in VersionedUserSet :
          /\ UserCodec_decode_ref(s).value = UserCodec_decode(s)
          /\ UserCodec_decode_ref(s).borrowed <=> (s.tag = "V2")
    /\ \A d \in UserV2Set :
          /\ DefaultCodec_decode_ref(d).value = DefaultCodec_decode(d)
          /\ DefaultCodec_decode_ref(d).borrowed
    /\ (vcall.op = "cell_get") => vcall.ret = UserCodec_decode(vcell)
    /\ \A k \in DOMAIN vinner :
          (vinner[k] = vcell) =>
              /\ versioned_get(vinner, k).ret = Some(versioned_cell_get(vcell).ret)
              /\ (vcall.op = "get" /\ vcall.key = k) =>
                    vcall.ret = Some(versioned_cell_get(vcell).ret)
              /\ (vcall.op = "cell_get") => Some(vcall.ret) = versioned_get(vinner, k).ret

\* The cell was read while it and the map hold the same legacy record.
C36_Witness ==
    /\ vcall.op = "cell_get"
    /\ vcell.tag = "V1"
    /\ \E k \in DOMAIN vinner : vinner[k] = vcell
    /\ vcall.ret = [name |-> vcell.user.name, age |-> None]

\* C37 - push/pop inverse: in every reachable buffer state, push(v) followed
\* at once by pop() completes and returns Some(v); when the buffer was not
\* full before the push, len and nth_element(i) for every i are after the pop
\* what they were before the push.
C37_PushPopInverse ==
    LET p == push(indices, data, nextVal)
        q == pop(p.indices, p.data)
    IN  /\ ~p.panic
        /\ ~q.panic
        /\ q.ret = Some(nextVal)
        /\ (indices.len < indices.capacity) =>
               /\ q.indices.len = indices.len
               /\ \A i \in 0..MaxN :
                      nth_element(q.indices, q.data, i) = nth_element(indices, data, i)

C37_Witness ==
    /\ call.op = "pop"
    /\ call.ret = Some(nextVal - 1)
    /\ prev.indices.len < prev.indices.capacity
    /\ prev.indices.start # 0
    /\ indices.len >= 1
    /\ Logical(indices, data) = SubSeq(Logical(prev.indices, prev.data), 1, indices.len)

\* C38 - restart safety: a buffer reopened over the same two memories after
\* any sequence of completed calls (new_with over VecExt::init and
\* StableCell::init, whatever the default capacity given) has the capacity,
\* the len and the nth_element(i), for every i, of the buffer before the
\* restart, and the calls made after the restart find them too.
C38_RestartSafe ==
    /\ \A default_history_size \in 1..MaxCap :
          \A b \in {reopen(Memories(indices, data), default_history_size)} :
              /\ ~b.panic
              /\ b.indices.capacity = indices.capacity
              /\ b.indices.len = indices.len
              /\ \A i \in 0..MaxN :
                     nth_element(b.indices, b.data, i) = nth_element(indices, data, i)
    /\ (call.op = "restart") =>
          /\ ~call.panic
          /\ indices.capacity = prev.indices.capacity
          /\ indices.len = prev.indices.len
          /\ \A i \in 0..MaxN :
                 nth_element(indices, data, i) = nth_element(prev.indices, prev.data, i)

C38_Witness ==
    /\ call.op = "restart"
    /\ call.arg # indices.capacity
    /\ indices.start # 0
    /\ indices.len >= 2
    /\ indices.len < indices.capacity
    /\ indices.start + indices.len > indices.capacity

====
